---- MODULE Spec2Model ----
(***************************************************************************)
(* Verification model of the portfolio repository (Next.js + Payload CMS). *)
(*                                                                         *)
(* The repository is made of independent parts; each part has its own      *)
(* variables, actions and specification:                                   *)
(*   SpecCms       the 'projects' and 'media' collections (Projects.ts)    *)
(*   SpecHome      the HomePage server component and the routes (page.tsx) *)
(*   SpecDocker    the two-stage container build (Dockerfile)              *)
(*   SpecApi       the Local API access rule (payload.find on posts)       *)
(*   SpecEndpoint  the protectedEndpoint handler                           *)
(*   SpecAccess    the access functions of the rules (salary, roles,       *)
(*                 adminOrSelf, restrictedIpAccess)                        *)
(*   SpecHook      an operation whose afterChange hook updates children    *)
(*                 with or without req (resaveChildren, brokenHook)        *)
(*   SpecLoop      an afterChange hook that updates its own document, with *)
(*                 and without the context flag (SpecLoopFair: the awaited *)
(*                 calls run to completion)                                *)
(*   SpecManual    the manual transaction around an order and its stock    *)
(*   SpecPages     the 'pages' collection with drafts and its read access  *)
(*   SpecTenant    the multi-tenant 'posts' collection                     *)
(*   SpecSubscription  activeSubscriptionAccess and tierBasedAccess        *)
(*   SpecDelete    the delete access function of Posts (comment count)     *)
(*   SpecRevalidate  the revalidatePage afterChange hook and the cache of  *)
(*                 the paths it revalidates                                *)
(*   SpecPublishedOn  the beforeChange hook of the publishedOn date field  *)
(*   SpecPlugin    myPlugin applied to a config                            *)
(*   SpecOnInit    executions of the onInit a plugin installs (seeding)    *)
(* A part that a specification does not run stays in its idle state.       *)
(***************************************************************************)
EXTENDS Integers, Sequences, FiniteSets, TLC

VARIABLES
    \* ---- CMS collections
    projects,     \* id -> stored project document, or NoDoc
    media,        \* set of ids of the stored media documents
    lastOp,       \* the last operation issued on the CMS and its outcome
    \* ---- HomePage renders, one per request
    pc,           \* request -> position in HomePage
    reqHeaders,   \* request -> headers of the request
    reqPath,      \* request -> path the browser opened
    headers,      \* request -> HomePage's local const headers
    authUser,     \* request -> HomePage's local const user (from payload.auth)
    calls,        \* request -> sequence of the calls HomePage awaited so far
    output,       \* request -> what the render returned
    adminUsers,   \* number of administrator users that exist
    \* ---- container build
    dpc,          \* index of the next Dockerfile instruction
    dstatus,      \* "building", "built" or "failed"
    context,      \* files of the build context
    stages,       \* stage name -> files added on top of its base image
    curStage,     \* name of the stage being built
    workdir,      \* WORKDIR of the stage being built
    imgEnv,       \* ENV of the stage being built, as <<key, value>> pairs
    imgExpose,    \* ports exposed by the stage being built
    imgCmd,       \* CMD of the stage being built
    nStages,      \* number of FROM instructions executed
    \* ---- Local API and protectedEndpoint
    posts,        \* id -> author of the stored post, NoPost when no such post
    epc,          \* position in the protectedEndpoint handler
    reqUser,      \* req.user of the request handled by protectedEndpoint
    queries,      \* the database queries the handler issued
    data,         \* the handler's local const data
    response,     \* what the handler returned or threw
    findArgs,     \* arguments of the last payload.find of the Local API
    findResult,   \* documents the last payload.find returned
    \* ---- access functions of the rules
    accUser,      \* req.user of the request the access function is called for
    accHeaders,   \* req.headers of that request (x-forwarded-for, x-real-ip)
    accDocs,      \* ids of the documents stored in the collection
    accDoc,       \* id of the document the function is called for (doc)
    accAllowed,   \* allowedIps given to restrictedIpAccess
    accCall,      \* name of the access function called last
    accResult,    \* the value that call returned
    \* ---- an operation whose afterChange hook issues nested operations
    hook,         \* the afterChange hook registered: resaveChildren or brokenHook
    txEnabled,    \* whether the database adapter runs with transactions
    parents,      \* id -> data of the stored parent document
    children,     \* id -> stored child document (parent, updatedField)
    txWrites,     \* writes staged in the transaction of the parent operation
    nested,       \* children the hook has updated in this operation
    todo,         \* children.docs the hook's loop has still to update
    hpc,          \* position of the parent operation
    target,       \* id of the document the parent operation changes
    \* ---- an afterChange hook that updates its own document
    flagged,      \* whether the hook registered uses the context flag
    views,        \* post id -> views of the stored post
    frames,       \* the update operations in progress, outermost first
    updates,      \* nested updates issued since the last external change
    changes,      \* number of external changes made
    \* ---- the manual transaction (orders and inventory)
    mpc,          \* position in the manual transaction code
    minput,       \* orderData, itemId and newStock of this run
    mcalls,       \* calls made on payload and payload.db, in order
    orders,       \* orders stored in the database
    stock,        \* item id -> stock stored in the database
    mstaged,      \* writes staged in the transaction
    merror,       \* the error caught by the catch clause
    mthrown,      \* the error thrown to the caller
    \* ---- the 'pages' collection with drafts
    pages,        \* id -> stored page (status, latest version), or NoPage
    readReq,      \* user and draft option of the last find on pages
    readDocs,     \* documents that find returned
    \* ---- the multi-tenant 'posts' collection
    tposts,       \* id -> stored post (tenant, title), or NoTenantPost
    tlast,        \* the last request on the collection and its outcome
    \* ---- subscription based access functions
    subUser,      \* req.user of the request the function is called for
    subscription, \* the document stored under user.subscriptionId, or NoSub
    reqBound,     \* whether the name req in the function body is bound
    dbUp,         \* whether the database answers the lookup
    requiredTier, \* the tier given to tierBasedAccess
    subCall,      \* name of the function called last
    subResult,    \* what that call returned or threw
    \* ---- the delete access function of Posts
    dposts,       \* ids of the stored posts
    comments,     \* comment id -> the post the stored comment refers to, or NoPost
    dlast,        \* the last delete request and its outcome
    \* ---- the revalidatePage hook
    rdoc,         \* the stored page (slug, _status, title), NoPage before creation
    stale,        \* paths whose cached render no longer shows what they serve
    rlast,        \* the last run of the hook: its arguments, calls and result
    skipped,      \* whether a change ran with context.disableRevalidate
    \* ---- the publishedOn date field
    pubDoc,       \* the stored document (_status, publishedOn)
    now,          \* the current date, what new Date() returns
    plast,        \* the last save: what the hook was given and what it returned
    \* ---- myPlugin
    pconfig,      \* the config object the plugin is given
    presult,      \* the last call of the plugin: options, config before, result
    \* ---- the onInit a plugin installs
    hasIncoming,  \* whether config.onInit was configured before the plugin
    ipc,          \* execution -> position in the onInit function
    ilog,         \* execution -> what the execution has done so far, in order
    itotal,       \* execution -> the function's local const totalDocs
    seeded        \* documents of 'plugin-collection' with id 'seeded-by-plugin'

cmsVars    == <<projects, media, lastOp>>
homeVars   == <<pc, reqHeaders, reqPath, headers, authUser, calls, output, adminUsers>>
dockerVars == <<dpc, dstatus, context, stages, curStage, workdir, imgEnv, imgExpose,
                imgCmd, nStages>>
apiVars    == <<posts, epc, reqUser, queries, data, response, findArgs, findResult>>
accessVars == <<accUser, accHeaders, accDocs, accDoc, accAllowed, accCall, accResult>>
appVars    == <<cmsVars, homeVars, dockerVars, apiVars>>
hookVars   == <<hook, txEnabled, parents, children, txWrites, nested, todo, hpc, target>>
loopVars   == <<flagged, views, frames, updates, changes>>
manualVars == <<mpc, minput, mcalls, orders, stock, mstaged, merror, mthrown>>
pagesVars  == <<pages, readReq, readDocs>>
tenantVars == <<tposts, tlast>>
subVars    == <<subUser, subscription, reqBound, dbUp, requiredTier, subCall, subResult>>
ruleVars   == <<accessVars, hookVars, loopVars, manualVars, pagesVars, tenantVars,
                subVars>>
deleteVars == <<dposts, comments, dlast>>
revalVars  == <<rdoc, stale, rlast, skipped>>
pubVars    == <<pubDoc, now, plast>>
pluginVars == <<pconfig, presult>>
onInitVars == <<hasIncoming, ipc, ilog, itotal, seeded>>
moreVars   == <<deleteVars, revalVars, pubVars, pluginVars, onInitVars>>
vars       == <<appVars, ruleVars, moreVars>>

notCms     == <<homeVars, dockerVars, apiVars, ruleVars,
                moreVars>>
notHome    == <<cmsVars, dockerVars, apiVars, ruleVars,
                moreVars>>
notDocker  == <<cmsVars, homeVars, apiVars, ruleVars,
                moreVars>>
notApi     == <<cmsVars, homeVars, dockerVars, ruleVars,
                moreVars>>
notAccess  == <<appVars, hookVars, loopVars, manualVars, pagesVars, tenantVars, subVars,
                moreVars>>
notHook    == <<appVars, accessVars, loopVars, manualVars, pagesVars, tenantVars, subVars,
                moreVars>>
notLoop    == <<appVars, accessVars, hookVars, manualVars, pagesVars, tenantVars, subVars,
                moreVars>>
notManual  == <<appVars, accessVars, hookVars, loopVars, pagesVars, tenantVars, subVars,
                moreVars>>
notPages   == <<appVars, accessVars, hookVars, loopVars, manualVars, tenantVars, subVars,
                moreVars>>
notTenant  == <<appVars, accessVars, hookVars, loopVars, manualVars, pagesVars, subVars,
                moreVars>>
notSub     == <<appVars, accessVars, hookVars, loopVars, manualVars, pagesVars, tenantVars,
                moreVars>>

(***************************************************************************)
(* Bounds of the model.                                                    *)
(***************************************************************************)
MaxProjects == 2
MaxMedia    == 1
MaxRequests == 2
MaxPosts    == 2
MaxUsers    == 2
MaxParents  == 2
MaxChildren == 2
MaxChanges  == 3
MaxDepth    == 4
MaxItems    == 2
MaxStock    == 2
MaxPages    == 2
MaxTenantPosts == 2
MaxComments    == 2
MaxClock       == 3
MaxCollections == 2
MaxInits       == 2

ProjectIds == 1..MaxProjects
MediaIds   == 1..MaxMedia

(***************************************************************************)
(* The 'projects' collection: Projects.ts.                                 *)
(***************************************************************************)
\* a field of a document that holds no value (undefined / null)
Absent == "<absent>"
\* an upload field that holds no reference
NoRef  == [relationTo |-> "", value |-> 0]
NoDoc  == [title |-> Absent, mainImage |-> NoRef, url |-> Absent, description |-> Absent,
           exists |-> FALSE]

\* Projects with title declared without required: true
ProjectsNoRequiredTitle ==
    [ slug   |-> "projects",
      drafts |-> FALSE,
      fields |-> <<
        [name |-> "title",       type |-> "text",     required |-> FALSE, relationTo |-> ""],
        [name |-> "mainImage",   type |-> "upload",   required |-> FALSE, relationTo |-> "media"],
        [name |-> "url",         type |-> "text",     required |-> FALSE, relationTo |-> ""],
        [name |-> "description", type |-> "textarea", required |-> FALSE, relationTo |-> ""] >> ]

\* Projects with description declared as type text
ProjectsDescriptionText ==
    [ slug   |-> "projects",
      drafts |-> FALSE,
      fields |-> <<
        [name |-> "title",       type |-> "text",     required |-> TRUE,  relationTo |-> ""],
        [name |-> "mainImage",   type |-> "upload",   required |-> FALSE, relationTo |-> "media"],
        [name |-> "url",         type |-> "text",     required |-> FALSE, relationTo |-> ""],
        [name |-> "description", type |-> "text",     required |-> FALSE, relationTo |-> ""] >> ]

\* Projects with mainImage declared with relationTo: projects
ProjectsImageToProjects ==
    [ slug   |-> "projects",
      drafts |-> FALSE,
      fields |-> <<
        [name |-> "title",       type |-> "text",     required |-> TRUE,  relationTo |-> ""],
        [name |-> "mainImage",   type |-> "upload",   required |-> FALSE, relationTo |-> "projects"],
        [name |-> "url",         type |-> "text",     required |-> FALSE, relationTo |-> ""],
        [name |-> "description", type |-> "textarea", required |-> FALSE, relationTo |-> ""] >> ]

\* export const Projects: CollectionConfig
Projects ==
    [ slug   |-> "projects",
      drafts |-> FALSE,
      fields |-> <<
        [name |-> "title",       type |-> "text",     required |-> TRUE,  relationTo |-> ""],
        [name |-> "mainImage",   type |-> "upload",   required |-> FALSE, relationTo |-> "media"],
        [name |-> "url",         type |-> "text",     required |-> FALSE, relationTo |-> ""],
        [name |-> "description", type |-> "textarea", required |-> FALSE, relationTo |-> ""] >> ]

FieldNames(config) == { config.fields[i].name : i \in DOMAIN config.fields }
Field(config, n)   == CHOOSE f \in { config.fields[i] : i \in DOMAIN config.fields } : f.name = n

(***************************************************************************)
(* What the CMS does with the declared schema on create, update, delete.   *)
(***************************************************************************)
\* the values a client can send for a text field: nothing, the empty string, a text
TextInputs == {Absent, "", "A"}

\* a document of collection coll with this id is stored
DocExists(coll, id) ==
    CASE coll = "media"    -> id \in media
      [] coll = "projects" -> id \in ProjectIds /\ projects[id].exists
      [] OTHER             -> FALSE

\* required: true on a text field rejects undefined, null and the empty string
RequiredOk(f, v) == f.required => v \notin {Absent, ""}

\* required on an upload field rejects a missing reference
UploadRequiredOk(f, ref) == f.required => ref # NoRef

\* the value sent for an upload field is a document chosen from the collection
\* that relationTo names
UploadChoiceOk(f, ref) ==
    ref # NoRef => ref.relationTo = f.relationTo /\ DocExists(f.relationTo, ref.value)

\* the id a client sent for an upload field is resolved in the field's relationTo
ResolveUpload(f, id) == IF id = 0 THEN NoRef ELSE [relationTo |-> f.relationTo, value |-> id]

\* a save as draft skips validation only on a collection with versions.drafts
SkipValidation(config, draft) == draft /\ config.drafts

\* validation of a whole document against the fields of the collection
ValidDoc(config, doc) ==
    /\ RequiredOk(Field(config, "title"), doc.title)
    /\ UploadRequiredOk(Field(config, "mainImage"), doc.mainImage)
    /\ RequiredOk(Field(config, "url"), doc.url)
    /\ RequiredOk(Field(config, "description"), doc.description)

TitleMissing(doc) == doc.title \in {Absent, ""}

FreeProjectIds == { i \in ProjectIds : ~projects[i].exists }
NextProjectId  == CHOOSE i \in FreeProjectIds : \A j \in FreeProjectIds : i <= j

CmsInit ==
    /\ projects = [i \in ProjectIds |-> NoDoc]
    /\ media = {}
    /\ lastOp = [op |-> "other", titleMissing |-> FALSE, result |-> "ok"]

\* payload.create({ collection: 'projects', data, draft })
CreateProject(title, image, url, description, draft) ==
    LET doc == [title |-> title,
                mainImage |-> ResolveUpload(Field(Projects, "mainImage"), image),
                url |-> url, description |-> description, exists |-> TRUE]
        ok  == /\ SkipValidation(Projects, draft) \/ ValidDoc(Projects, doc)
               /\ UploadChoiceOk(Field(Projects, "mainImage"), doc.mainImage)
    IN  /\ FreeProjectIds # {}
        /\ projects' = IF ok THEN [projects EXCEPT ![NextProjectId] = doc] ELSE projects
        /\ lastOp' = [op |-> "create", titleMissing |-> TitleMissing(doc),
                      result |-> IF ok THEN "ok" ELSE "ValidationError"]
        /\ UNCHANGED <<media, notCms>>

\* the document an update with one field in its data would store
Patched(doc, field, text, image) ==
    CASE field = "title"       -> [doc EXCEPT !.title = text]
      [] field = "mainImage"   -> [doc EXCEPT !.mainImage =
                                      ResolveUpload(Field(Projects, "mainImage"), image)]
      [] field = "url"         -> [doc EXCEPT !.url = text]
      [] field = "description" -> [doc EXCEPT !.description = text]

\* payload.update({ collection: 'projects', id, data: { [field]: value }, draft })
UpdateProject(id, field, text, image, draft) ==
    LET doc == Patched(projects[id], field, text, image)
        ok  == /\ SkipValidation(Projects, draft) \/ ValidDoc(Projects, doc)
               /\ field = "mainImage" =>
                      UploadChoiceOk(Field(Projects, "mainImage"), doc.mainImage)
    IN  /\ projects[id].exists
        /\ projects' = IF ok THEN [projects EXCEPT ![id] = doc] ELSE projects
        /\ lastOp' = [op |-> "update", titleMissing |-> TitleMissing(doc),
                      result |-> IF ok THEN "ok" ELSE "ValidationError"]
        /\ UNCHANGED <<media, notCms>>

\* payload.delete({ collection: 'projects', id })
DeleteProject(id) ==
    /\ projects[id].exists
    /\ projects' = [projects EXCEPT ![id] = NoDoc]
    /\ lastOp' = [op |-> "other", titleMissing |-> FALSE, result |-> "ok"]
    /\ UNCHANGED <<media, notCms>>

\* payload.create({ collection: 'media', data, file })
CreateMedia(id) ==
    /\ id \notin media
    /\ media' = media \cup {id}
    /\ lastOp' = [op |-> "other", titleMissing |-> FALSE, result |-> "ok"]
    /\ UNCHANGED <<projects, notCms>>

\* payload.delete({ collection: 'media', id }): no hook of the repository touches
\* the documents that refer to the deleted one
DeleteMedia(id) ==
    /\ id \in media
    /\ media' = media \ {id}
    /\ lastOp' = [op |-> "other", titleMissing |-> FALSE, result |-> "ok"]
    /\ UNCHANGED <<projects, notCms>>

CmsNext ==
    \/ \E t \in TextInputs, im \in 0..MaxMedia, u \in {Absent, "u"}, d \in {Absent, "d"},
          dr \in BOOLEAN : CreateProject(t, im, u, d, dr)
    \/ \E id \in ProjectIds, dr \in BOOLEAN :
          \/ \E t \in TextInputs : UpdateProject(id, "title", t, 0, dr)
          \/ \E im \in 0..MaxMedia : UpdateProject(id, "mainImage", Absent, im, dr)
          \/ \E t \in {Absent, "u"} : UpdateProject(id, "url", t, 0, dr)
          \/ \E t \in {Absent, "d"} : UpdateProject(id, "description", t, 0, dr)
    \/ \E id \in ProjectIds : DeleteProject(id)
    \/ \E id \in MediaIds : CreateMedia(id)
    \/ \E id \in MediaIds : DeleteMedia(id)


(***************************************************************************)
(* Idle states of the parts, and the specification of the CMS part.        *)
(***************************************************************************)
HomeIdle ==
    /\ pc = <<>> /\ reqHeaders = <<>> /\ reqPath = <<>> /\ headers = <<>>
    /\ authUser = <<>> /\ calls = <<>> /\ output = <<>> /\ adminUsers = 0

DockerIdle ==
    /\ dpc = 0 /\ dstatus = "idle" /\ context = {} /\ stages = <<>> /\ curStage = ""
    /\ workdir = <<>> /\ imgEnv = {} /\ imgExpose = {} /\ imgCmd = <<>> /\ nStages = 0

ApiIdle ==
    /\ posts = <<>> /\ epc = "off" /\ reqUser = 0 /\ queries = <<>> /\ data = {}
    /\ response = <<>> /\ findArgs = <<>> /\ findResult = {}

CmsIdle == projects = <<>> /\ media = {} /\ lastOp = <<>>

AccessIdle ==
    /\ accUser = <<>> /\ accHeaders = <<>> /\ accDocs = {} /\ accDoc = 0
    /\ accAllowed = <<>> /\ accCall = "off" /\ accResult = <<>>

HookIdle ==
    /\ hook = "" /\ txEnabled = FALSE /\ parents = <<>> /\ children = <<>>
    /\ txWrites = {} /\ nested = {} /\ todo = {} /\ hpc = "off" /\ target = 0

LoopIdle ==
    /\ flagged = FALSE /\ views = <<>> /\ frames = <<>> /\ updates = 0
    /\ changes = 0

ManualIdle ==
    /\ mpc = "off" /\ minput = <<>> /\ mcalls = <<>> /\ orders = {} /\ stock = <<>>
    /\ mstaged = {} /\ merror = "" /\ mthrown = ""

PagesIdle == pages = <<>> /\ readReq = <<>> /\ readDocs = {}

TenantIdle == tposts = <<>> /\ tlast = <<>>

SubIdle ==
    /\ subUser = <<>> /\ subscription = <<>> /\ reqBound = FALSE /\ dbUp = FALSE
    /\ requiredTier = "" /\ subCall = "off" /\ subResult = <<>>

RulesIdle ==
    /\ AccessIdle /\ HookIdle /\ LoopIdle /\ ManualIdle /\ PagesIdle /\ TenantIdle
    /\ SubIdle

AppIdle == CmsIdle /\ HomeIdle /\ DockerIdle /\ ApiIdle

DeleteIdle == dposts = {} /\ comments = <<>> /\ dlast = <<>>

RevalIdle == rdoc = <<>> /\ stale = {} /\ rlast = <<>> /\ skipped = FALSE

PubIdle == pubDoc = <<>> /\ now = 0 /\ plast = <<>>

PluginIdle == pconfig = <<>> /\ presult = <<>>

OnInitIdle ==
    /\ hasIncoming = FALSE /\ ipc = <<>> /\ ilog = <<>> /\ itotal = <<>>
    /\ seeded = 0

MoreIdle == DeleteIdle /\ RevalIdle /\ PubIdle /\ PluginIdle /\ OnInitIdle

InitCms == CmsInit /\ HomeIdle /\ DockerIdle /\ ApiIdle /\ RulesIdle /\ MoreIdle

SpecCms == InitCms /\ [][CmsNext]_vars

(***************************************************************************)
(* Claims about the 'projects' collection (SpecCms).                       *)
(***************************************************************************)
StoredProjects == { i \in ProjectIds : projects[i].exists }

TitlePresent == \A i \in StoredProjects : ~TitleMissing(projects[i])

RejectedWithoutTitle ==
    (lastOp'.op \in {"create", "update"} /\ lastOp'.titleMissing)
        => (lastOp'.result = "ValidationError" /\ projects' = projects)

\* C1: in every reachable state every stored project has a title (not undefined,
\* null or empty), and a create or update whose document would have no title is
\* rejected with a validation error and leaves the stored projects unchanged.
C1_TitleRequired == []TitlePresent /\ [][RejectedWithoutTitle]_vars

\* C1 witness: with a project stored, an update that clears the title was rejected.
C1_Witness ==
    /\ StoredProjects # {}
    /\ lastOp = [op |-> "update", titleMissing |-> TRUE, result |-> "ValidationError"]

FourFields ==
    /\ Len(Projects.fields) = 4
    /\ FieldNames(Projects) = {"title", "mainImage", "url", "description"}

\* the declared types of the fields in which the stored project i holds a text
TextFieldTypes(i) ==
    { Field(Projects, n).type : n \in { m \in {"title", "url", "description"} :
                                          projects[i][m] # Absent } }

\* C2 as stated: exactly the four fields title, mainImage, url, description, and
\* title, url and description are all of field type text, so every text a stored
\* project holds is held by a field of type text.
C2_AllText ==
    /\ FourFields
    /\ \A i \in StoredProjects : TextFieldTypes(i) \subseteq {"text"}

\* C2 amended: exactly the four fields title, mainImage, url, description; title
\* and url are of type text, description is of type textarea and mainImage of
\* type upload.
C2_FieldTypes ==
    /\ FourFields
    /\ Field(Projects, "mainImage").type = "upload"
    /\ \A i \in StoredProjects :
          /\ Field(Projects, "title").type = "text"
          /\ projects[i].url # Absent => Field(Projects, "url").type = "text"
          /\ projects[i].description # Absent =>
                Field(Projects, "description").type = "textarea"

\* C2 witness: a project is stored with a value in each of the four fields.
C2_Witness ==
    \E i \in StoredProjects :
        /\ projects[i].title = "A" /\ projects[i].url = "u"
        /\ projects[i].description = "d" /\ projects[i].mainImage # NoRef

ImagesSet == { i \in StoredProjects : projects[i].mainImage # NoRef }

\* C3 as stated: a stored project's mainImage, when set, refers to an existing
\* document of the 'media' collection and to no other collection.
C3_RefersToExistingMedia ==
    \A i \in ImagesSet :
        /\ projects[i].mainImage.relationTo = "media"
        /\ projects[i].mainImage.value \in media

\* a document without mainImage passes the validation of the collection
AcceptedWithoutImage ==
    LET doc == [title |-> "A", mainImage |-> NoRef, url |-> Absent,
                description |-> Absent, exists |-> TRUE]
    IN  ValidDoc(Projects, doc) /\ UploadChoiceOk(Field(Projects, "mainImage"), doc.mainImage)

\* C3 amended: mainImage is optional (a project without it is accepted), and a
\* stored project's mainImage, when set, is a reference into the 'media' collection
\* and into no other collection; the media document it names may have been deleted
\* since, because deleting a media document leaves the projects that refer to it
\* as they are.
C3_OptionalRefersToMediaCollection ==
    /\ AcceptedWithoutImage
    /\ \A i \in ImagesSet :
        /\ projects[i].mainImage.relationTo = "media"
        /\ projects[i].mainImage.value \in MediaIds

\* C3 witness: one project is stored without mainImage, another holds a mainImage
\* whose media document has been deleted.
C3_Witness ==
    /\ \E i \in StoredProjects : projects[i].mainImage = NoRef
    /\ \E i \in ImagesSet : projects[i].mainImage.value \notin media

(***************************************************************************)
(* The routes of the application and the HomePage server component:        *)
(* app/(frontend)/page.tsx, app/(frontend)/layout.tsx, Header.             *)
(***************************************************************************)
Requests == 1..MaxRequests

\* the links of the Header navigation, rendered by RootLayout on every page
HeaderLinks == {"/", "/about", "/works", "/contact", "/admin"}

\* headers of a request: without a session, or with the session cookie of the
\* first user
HeaderValues == {"no-cookie", "cookie-user1"}
NoHeaders == ""
NoUser == 0

\* file-based routing: app/(frontend)/page.tsx serves "/", the (payload) route
\* group serves the admin panel; no other page exists under app/
RouteOf(path) ==
    CASE path = "/"      -> "HomePage"
      [] path = "/admin" -> "AdminPanel"
      [] OTHER           -> "NotFound"

\* the JSX HomePage returns: five <section> elements whose texts are the word
\* "portfolio" (in katakana), bare and then numbered 1 to 4
HomeSections ==
    << "portfolio", "portfolio 1", "portfolio 2", "portfolio 3", "portfolio 4" >>

\* a HomePage that greets the logged-in user above the sections
HomePageViewGreeting(user) ==
    IF user = NoUser THEN HomeSections ELSE << "Welcome back" >> \o HomeSections

\* what HomePage returns: the five fixed sections, whoever the user is
HomePageView(user) == HomeSections

\* the screens the admin panel shows: the creation of the first user while no
\* user exists, the panel (or its login) afterwards
CreateFirstUserScreen == << "admin/create-first-user" >>
AdminScreen           == << "admin" >>
NotFoundScreen        == << "404" >>
NoOutput              == << >>

\* payload.auth({ headers }): the user of the session the headers carry
Auth(h) == IF h = "cookie-user1" /\ adminUsers >= 1 THEN 1 ELSE NoUser

\* headers kept in one place shared by all renders
AuthHeadersShared(r) == headers[1]

\* the headers HomePage passes to payload.auth: its local const headers
AuthHeaders(r) == headers[r]

\* one awaited call of HomePage, as recorded in calls
Call(fn, h) == [fn |-> fn, headers |-> h]

HomeInit ==
    /\ pc = [r \in Requests |-> "idle"]
    /\ reqHeaders = [r \in Requests |-> NoHeaders]
    /\ reqPath = [r \in Requests |-> ""]
    /\ headers = [r \in Requests |-> NoHeaders]
    /\ authUser = [r \in Requests |-> NoUser]
    /\ calls = [r \in Requests |-> << >>]
    /\ output = [r \in Requests |-> NoOutput]
    /\ adminUsers = 0

\* the browser opens a path; the router picks the page that serves it
Open(r, path, h) ==
    /\ pc[r] = "idle"
    /\ reqPath' = [reqPath EXCEPT ![r] = path]
    /\ reqHeaders' = [reqHeaders EXCEPT ![r] = h]
    /\ pc' = [pc EXCEPT ![r] = CASE RouteOf(path) = "HomePage"   -> "getHeaders"
                                 [] RouteOf(path) = "AdminPanel" -> "admin"
                                 [] OTHER                        -> "notFound"]
    /\ UNCHANGED <<headers, authUser, calls, output, adminUsers, notHome>>

\* a HomePage that caught the error of an await and returned the page anyway
RejectCaught(r, fn) ==
    /\ pc' = [pc EXCEPT ![r] = "done"]
    /\ output' = [output EXCEPT ![r] = HomeSections]

\* a rejected await: HomePage catches nothing, the render rejects with the error
Reject(r, fn) ==
    /\ pc' = [pc EXCEPT ![r] = "failed"]
    /\ output' = [output EXCEPT ![r] = << "error", fn >>]

\* const headers = await getHeaders()
AwaitGetHeaders(r, ok) ==
    /\ pc[r] = "getHeaders"
    /\ calls' = [calls EXCEPT ![r] = Append(@, Call("getHeaders", NoHeaders))]
    /\ IF ok
         THEN /\ headers' = [headers EXCEPT ![r] = reqHeaders[r]]
              /\ pc' = [pc EXCEPT ![r] = "config"]
              /\ UNCHANGED output
         ELSE Reject(r, "getHeaders") /\ UNCHANGED headers
    /\ UNCHANGED <<reqHeaders, reqPath, authUser, adminUsers, notHome>>

\* const payloadConfig = await config
AwaitConfig(r, ok) ==
    /\ pc[r] = "config"
    /\ calls' = [calls EXCEPT ![r] = Append(@, Call("config", NoHeaders))]
    /\ IF ok
         THEN pc' = [pc EXCEPT ![r] = "getPayload"] /\ UNCHANGED output
         ELSE Reject(r, "config")
    /\ UNCHANGED <<reqHeaders, reqPath, headers, authUser, adminUsers, notHome>>

\* const payload = await getPayload({ config: payloadConfig })
AwaitGetPayload(r, ok) ==
    /\ pc[r] = "getPayload"
    /\ calls' = [calls EXCEPT ![r] = Append(@, Call("getPayload", NoHeaders))]
    /\ IF ok
         THEN pc' = [pc EXCEPT ![r] = "auth"] /\ UNCHANGED output
         ELSE Reject(r, "getPayload")
    /\ UNCHANGED <<reqHeaders, reqPath, headers, authUser, adminUsers, notHome>>

\* const { user } = await payload.auth({ headers })
AwaitAuth(r, ok) ==
    /\ pc[r] = "auth"
    /\ calls' = [calls EXCEPT ![r] = Append(@, Call("payload.auth", AuthHeaders(r)))]
    /\ IF ok
         THEN /\ authUser' = [authUser EXCEPT ![r] = Auth(AuthHeaders(r))]
              /\ pc' = [pc EXCEPT ![r] = "return"]
              /\ UNCHANGED output
         ELSE Reject(r, "payload.auth") /\ UNCHANGED authUser
    /\ UNCHANGED <<reqHeaders, reqPath, headers, adminUsers, notHome>>

\* return ( <div className="home"> ... </div> )
Return(r) ==
    /\ pc[r] = "return"
    /\ output' = [output EXCEPT ![r] = HomePageView(authUser[r])]
    /\ pc' = [pc EXCEPT ![r] = "done"]
    /\ UNCHANGED <<reqHeaders, reqPath, headers, authUser, calls, adminUsers, notHome>>

\* the admin panel of the (payload) route group answers /admin
ServeAdmin(r) ==
    /\ pc[r] = "admin"
    /\ output' = [output EXCEPT ![r] =
                    IF adminUsers = 0 THEN CreateFirstUserScreen ELSE AdminScreen]
    /\ pc' = [pc EXCEPT ![r] = "done"]
    /\ UNCHANGED <<reqHeaders, reqPath, headers, authUser, calls, adminUsers, notHome>>

\* no page serves the path
ServeNotFound(r) ==
    /\ pc[r] = "notFound"
    /\ output' = [output EXCEPT ![r] = NotFoundScreen]
    /\ pc' = [pc EXCEPT ![r] = "done"]
    /\ UNCHANGED <<reqHeaders, reqPath, headers, authUser, calls, adminUsers, notHome>>

\* the form of the creation screen is submitted: the first administrator exists
CreateFirstUser ==
    /\ adminUsers = 0
    /\ \E r \in Requests : pc[r] = "done" /\ output[r] = CreateFirstUserScreen
    /\ adminUsers' = 1
    /\ UNCHANGED <<pc, reqHeaders, reqPath, headers, authUser, calls, output, notHome>>

\* the response has been delivered; the next request may arrive
Close(r) ==
    /\ pc[r] \in {"done", "failed"}
    /\ pc' = [pc EXCEPT ![r] = "idle"]
    /\ reqHeaders' = [reqHeaders EXCEPT ![r] = NoHeaders]
    /\ reqPath' = [reqPath EXCEPT ![r] = ""]
    /\ headers' = [headers EXCEPT ![r] = NoHeaders]
    /\ authUser' = [authUser EXCEPT ![r] = NoUser]
    /\ calls' = [calls EXCEPT ![r] = << >>]
    /\ output' = [output EXCEPT ![r] = NoOutput]
    /\ UNCHANGED <<adminUsers, notHome>>

HomeNext ==
    \/ \E r \in Requests, path \in HeaderLinks, h \in HeaderValues : Open(r, path, h)
    \/ \E r \in Requests, ok \in BOOLEAN : AwaitGetHeaders(r, ok)
    \/ \E r \in Requests, ok \in BOOLEAN : AwaitConfig(r, ok)
    \/ \E r \in Requests, ok \in BOOLEAN : AwaitGetPayload(r, ok)
    \/ \E r \in Requests, ok \in BOOLEAN : AwaitAuth(r, ok)
    \/ \E r \in Requests : Return(r)
    \/ \E r \in Requests : ServeAdmin(r)
    \/ \E r \in Requests : ServeNotFound(r)
    \/ CreateFirstUser
    \/ \E r \in Requests : Close(r)

InitHome == HomeInit /\ CmsIdle /\ DockerIdle /\ ApiIdle /\ RulesIdle /\ MoreIdle

SpecHome == InitHome /\ [][HomeNext]_vars

(***************************************************************************)
(* Claims about HomePage and the routes (SpecHome).                        *)
(***************************************************************************)
\* the requests whose HomePage render has completed
Rendered == { r \in Requests : pc[r] = "done" /\ RouteOf(reqPath[r]) = "HomePage" }

\* C4: any two HomePage renders that complete produce the same output, the five
\* fixed sections in their order, whatever the headers of the two requests and
\* whether payload.auth returned a user or none.
C4_StaticOutput ==
    \A r1 \in Rendered, r2 \in Rendered :
        /\ output[r1] = output[r2]
        /\ output[r1] = HomeSections
        /\ Len(output[r1]) = 5

\* C4 witness: two completed renders, one of a request whose headers carry a
\* session and for which payload.auth returned a user, one without.
C4_Witness ==
    \E r1 \in Rendered, r2 \in Rendered :
        /\ reqHeaders[r1] # reqHeaders[r2]
        /\ authUser[r1] # NoUser /\ authUser[r2] = NoUser

HomePageAwaits == << "getHeaders", "config", "getPayload", "payload.auth" >>

\* the number of awaits HomePage has behind it at each position
AwaitsBefore(p) ==
    CASE p = "getHeaders" -> 0
      [] p = "config"     -> 1
      [] p = "getPayload" -> 2
      [] p = "auth"       -> 3
      [] p \in {"return", "done"} -> 4

\* C5: in each render getHeaders, the config promise, getPayload and payload.auth
\* are awaited strictly in that order, payload.auth is called exactly once, with
\* the headers of the current request, and no other call (no create, update or
\* delete on the CMS) is made.
C5_AwaitOrder ==
    \A r \in Requests :
        /\ Len(calls[r]) <= 4
        /\ \A i \in DOMAIN calls[r] : calls[r][i].fn = HomePageAwaits[i]
        /\ \A i \in DOMAIN calls[r] :
              calls[r][i].fn = "payload.auth" => calls[r][i].headers = reqHeaders[r]
        /\ (RouteOf(reqPath[r]) = "HomePage" /\ pc[r] # "failed")
              => Len(calls[r]) = AwaitsBefore(pc[r])
        /\ RouteOf(reqPath[r]) # "HomePage" => calls[r] = << >>

\* C5 witness: a render of a request with a session cookie has completed its four
\* awaits while another request with other headers is being rendered.
C5_Witness ==
    \E r1 \in Rendered, r2 \in Requests :
        /\ Len(calls[r1]) = 4 /\ reqHeaders[r1] = "cookie-user1"
        /\ reqHeaders[r2] = "no-cookie" /\ Len(calls[r2]) >= 1

\* the position HomePage reaches when the await of fn resolves
AfterAwait(fn) ==
    CASE fn = "getHeaders"   -> "config"
      [] fn = "config"       -> "getPayload"
      [] fn = "getPayload"   -> "auth"
      [] fn = "payload.auth" -> "return"

\* the requests whose render rejected
Failed == { r \in Requests : pc[r] = "failed" }

\* a rejected render carries the error of the await made last and no content
RejectsWithThatError ==
    \A r \in Failed :
        /\ calls[r] # << >>
        /\ output[r] = << "error", calls[r][Len(calls[r])].fn >>
        /\ output[r] # HomeSections

\* an await that does not resolve rejects the render, a rejected render starts
\* no further step, and content is returned only after the four awaits resolved
NothingAfterRejection ==
    \A r \in Requests :
        /\ (Len(calls'[r]) = Len(calls[r]) + 1
               /\ pc'[r] # AfterAwait(calls'[r][Len(calls'[r])].fn))
              => (pc'[r] = "failed"
                    /\ output'[r] = << "error", calls'[r][Len(calls'[r])].fn >>)
        /\ r \in Failed
              => \/ pc'[r] = "failed" /\ calls'[r] = calls[r] /\ output'[r] = output[r]
                 \/ pc'[r] = "idle" /\ calls'[r] = << >>
        /\ (output'[r] = HomeSections /\ output[r] # HomeSections)
              => (pc[r] = "return" /\ Len(calls[r]) = 4)

\* C28: HomePage has no error handling of its own: when getHeaders, the config
\* promise, getPayload or payload.auth rejects, the render rejects with that
\* error, no later step of the sequence is started and no page content is
\* returned.
C28_NoErrorHandling == []RejectsWithThatError /\ [][NothingAfterRejection]_vars

\* C28 witness: one render rejected at getPayload after two resolved awaits,
\* while another render rejected at payload.auth.
C28_Witness ==
    \E r1 \in Failed, r2 \in Failed :
        /\ output[r1] = << "error", "getPayload" >> /\ Len(calls[r1]) = 3
        /\ output[r2] = << "error", "payload.auth" >> /\ Len(calls[r2]) = 4

\* C7: when "/" (http://localhost:3000) has been opened while no administrator
\* user exists, the screen shown is the creation of the administrator user.
C7_FirstOpenShowsCreateFirstUser ==
    \A r \in Requests :
        (pc[r] = "done" /\ reqPath[r] = "/" /\ adminUsers = 0)
            => output[r] = CreateFirstUserScreen

\* C8: the admin panel answers /admin, and no link of the Header navigation leads
\* to a path that no route serves.
C8_HeaderLinksServed ==
    /\ RouteOf("/admin") = "AdminPanel"
    /\ \A r \in Requests :
          (pc[r] = "done" /\ reqPath[r] \in HeaderLinks) => output[r] # NotFoundScreen

(***************************************************************************)
(* The container build: Dockerfile.  A file is the sequence of the names   *)
(* on its path; a directory exists when a file lies under it.              *)
(***************************************************************************)
IsPrefix(p, f) == Len(p) <= Len(f) /\ SubSeq(f, 1, Len(p)) = p

\* the files of fs that a COPY of src selects: src itself or what lies under it
Selected(fs, src) == { f \in fs : IsPrefix(src, f) }

\* where COPY puts file f of source src: a file goes into dst under its own
\* name, the content of a directory goes under dst
Moved(f, src, dst) ==
    IF f = src THEN dst \o << f[Len(f)] >>
               ELSE dst \o SubSeq(f, Len(src) + 1, Len(f))

Instr(op, from, srcs, dst, val) ==
    [op |-> op, from |-> from, srcs |-> srcs, dst |-> dst, val |-> val]

\* a Dockerfile whose runner stage copies the whole /app of the builder
DockerfileCopiesApp ==
    << Instr("FROM", "node:22-alpine", {}, << >>, << "builder" >>),
       Instr("WORKDIR", "", {}, << "app" >>, << >>),
       Instr("COPY", "", {<< "package.json" >>, << "package-lock.json" >>}, << >>, << >>),
       Instr("RUN", "", {}, << >>, << "npm", "install" >>),
       Instr("COPY", "", {<< >>}, << >>, << >>),
       Instr("RUN", "", {}, << >>, << "npm", "run", "build" >>),
       Instr("FROM", "node:22-alpine", {}, << >>, << "runner" >>),
       Instr("WORKDIR", "", {}, << "app" >>, << >>),
       Instr("ENV", "", {}, << >>, << "NODE_ENV", "production" >>),
       Instr("COPY", "builder", {<< "app", "public" >>}, << "public" >>, << >>),
       Instr("COPY", "builder", {<< "app" >>}, << >>, << >>),
       Instr("COPY", "builder", {<< "app", ".next", "static" >>}, << ".next", "static" >>, << >>),
       Instr("EXPOSE", "", {}, << >>, << "3000" >>),
       Instr("ENV", "", {}, << >>, << "PORT", "3000" >>),
       Instr("CMD", "", {}, << >>, << "node", "server.js" >>) >>

\* the instructions of the Dockerfile, in order; a COPY names its sources as
\* absolute paths of the stage (or paths of the build context) and its
\* destination relative to WORKDIR
Dockerfile ==
    << Instr("FROM", "node:22-alpine", {}, << >>, << "builder" >>),
       Instr("WORKDIR", "", {}, << "app" >>, << >>),
       Instr("COPY", "", {<< "package.json" >>, << "package-lock.json" >>}, << >>, << >>),
       Instr("RUN", "", {}, << >>, << "npm", "install" >>),
       Instr("COPY", "", {<< >>}, << >>, << >>),
       Instr("RUN", "", {}, << >>, << "npm", "run", "build" >>),
       Instr("FROM", "node:22-alpine", {}, << >>, << "runner" >>),
       Instr("WORKDIR", "", {}, << "app" >>, << >>),
       Instr("ENV", "", {}, << >>, << "NODE_ENV", "production" >>),
       Instr("COPY", "builder", {<< "app", "public" >>}, << "public" >>, << >>),
       Instr("COPY", "builder", {<< "app", ".next", "standalone" >>}, << >>, << >>),
       Instr("COPY", "builder", {<< "app", ".next", "static" >>}, << ".next", "static" >>, << >>),
       Instr("EXPOSE", "", {}, << >>, << "3000" >>),
       Instr("ENV", "", {}, << >>, << "PORT", "3000" >>),
       Instr("CMD", "", {}, << >>, << "node", "server.js" >>) >>

\* files a build context may hold besides package.json
OptionalContextFiles ==
    { << "package-lock.json" >>, << "public", "logo.png" >>, << "src", "app", "page.tsx" >>,
      << "next.config.mjs" >>, << ".env" >> }

\* npm install: needs package.json in the working directory
NpmInstall(fs, wd) ==
    IF wd \o << "package.json" >> \in fs
      THEN fs \cup { wd \o << "node_modules", "next" >> }
      ELSE fs

\* npm run build: next build writes .next; with output: 'standalone' set in
\* next.config.mjs it also writes .next/standalone with server.js
NextBuildOutput(fs, wd) ==
    { wd \o << ".next", "static", "chunks.js" >>, wd \o << ".next", "cache", "webpack" >> }
    \cup IF wd \o << "next.config.mjs" >> \in fs
           THEN { wd \o << ".next", "standalone", "server.js" >>,
                  wd \o << ".next", "standalone", "node_modules", "next" >>,
                  wd \o << ".next", "standalone", ".next", "server", "app.js" >> }
           ELSE {}

CanBuild(fs, wd) ==
    /\ wd \o << "node_modules", "next" >> \in fs
    /\ wd \o << "src", "app", "page.tsx" >> \in fs

DockerInit ==
    /\ dpc = 1 /\ dstatus = "building"
    /\ \E opt \in SUBSET OptionalContextFiles : context = opt \cup { << "package.json" >> }
    /\ stages = [n \in {"builder", "runner"} |-> {}]
    /\ curStage = "" /\ workdir = << >>
    /\ imgEnv = {} /\ imgExpose = {} /\ imgCmd = << >> /\ nStages = 0

Advance ==
    /\ dpc' = dpc + 1
    /\ dstatus' = IF dpc = Len(Dockerfile) THEN "built" ELSE "building"

Fail == dpc' = dpc /\ dstatus' = "failed"

\* FROM image AS name: a new stage starts from the base image
ExecFrom(i) ==
    /\ curStage' = i.val[1]
    /\ nStages' = nStages + 1
    /\ workdir' = << >> /\ imgEnv' = {} /\ imgExpose' = {} /\ imgCmd' = << >>
    /\ Advance
    /\ UNCHANGED <<context, stages>>

ExecWorkdir(i) ==
    /\ workdir' = i.dst
    /\ Advance
    /\ UNCHANGED <<context, stages, curStage, imgEnv, imgExpose, imgCmd, nStages>>

\* COPY [--from=stage] src... dst: fails when no source exists
ExecCopy(i) ==
    LET from  == IF i.from = "" THEN context ELSE stages[i.from]
        found == { src \in i.srcs : Selected(from, src) # {} }
        added == UNION { { Moved(f, src, workdir \o i.dst) : f \in Selected(from, src) }
                         : src \in found }
    IN  /\ IF found = {}
             THEN Fail /\ UNCHANGED stages
             ELSE Advance /\ stages' = [stages EXCEPT ![curStage] = @ \cup added]
        /\ UNCHANGED <<context, curStage, workdir, imgEnv, imgExpose, imgCmd, nStages>>

ExecRun(i) ==
    LET fs == stages[curStage]
    IN  /\ IF i.val = << "npm", "install" >>
             THEN Advance /\ stages' = [stages EXCEPT ![curStage] = NpmInstall(fs, workdir)]
             ELSE IF CanBuild(fs, workdir)
                    THEN /\ Advance
                         /\ stages' = [stages EXCEPT ![curStage] =
                                          fs \cup NextBuildOutput(fs, workdir)]
                    ELSE Fail /\ UNCHANGED stages
        /\ UNCHANGED <<context, curStage, workdir, imgEnv, imgExpose, imgCmd, nStages>>

ExecEnv(i) ==
    /\ imgEnv' = { kv \in imgEnv : kv[1] # i.val[1] } \cup { i.val }
    /\ Advance
    /\ UNCHANGED <<context, stages, curStage, workdir, imgExpose, imgCmd, nStages>>

ExecExpose(i) ==
    /\ imgExpose' = imgExpose \cup { i.val[1] }
    /\ Advance
    /\ UNCHANGED <<context, stages, curStage, workdir, imgEnv, imgCmd, nStages>>

ExecCmd(i) ==
    /\ imgCmd' = i.val
    /\ Advance
    /\ UNCHANGED <<context, stages, curStage, workdir, imgEnv, imgExpose, nStages>>

\* docker build is about to execute an instruction of this kind
Building(op) == dstatus = "building" /\ Dockerfile[dpc].op = op

StepFrom    == Building("FROM")    /\ ExecFrom(Dockerfile[dpc])    /\ UNCHANGED notDocker
StepWorkdir == Building("WORKDIR") /\ ExecWorkdir(Dockerfile[dpc]) /\ UNCHANGED notDocker
StepCopy    == Building("COPY")    /\ ExecCopy(Dockerfile[dpc])    /\ UNCHANGED notDocker
StepRun     == Building("RUN")     /\ ExecRun(Dockerfile[dpc])     /\ UNCHANGED notDocker
StepEnv     == Building("ENV")     /\ ExecEnv(Dockerfile[dpc])     /\ UNCHANGED notDocker
StepExpose  == Building("EXPOSE")  /\ ExecExpose(Dockerfile[dpc])  /\ UNCHANGED notDocker
StepCmd     == Building("CMD")     /\ ExecCmd(Dockerfile[dpc])     /\ UNCHANGED notDocker

DockerNext ==
    \/ StepFrom \/ StepWorkdir \/ StepCopy \/ StepRun \/ StepEnv \/ StepExpose \/ StepCmd

InitDocker == DockerInit /\ CmsIdle /\ HomeIdle /\ ApiIdle /\ RulesIdle /\ MoreIdle

SpecDocker == InitDocker /\ [][DockerNext]_vars

(***************************************************************************)
(* Claim about the container build (SpecDocker).                           *)
(***************************************************************************)
BuilderFiles == stages["builder"]
RunnerFiles  == stages["runner"]

FromPublic(f)     == IsPrefix(<< "app", "public" >>, f) /\ f \in BuilderFiles
FromStatic(f)     == IsPrefix(<< "app", ".next", "static" >>, f) /\ f \in BuilderFiles
FromStandalone(f) == (<< "app", ".next", "standalone" >> \o Tail(f)) \in BuilderFiles

\* C6: a finished build ran two stages; every file of the final (runner) image
\* is a file of the builder's public directory, of its .next/static output or of
\* its .next/standalone output, all three are there, the image starts
\* node server.js (which lies in its working directory) with PORT set to 3000,
\* and 3000 is the port it exposes.
C6_RuntimeImage ==
    dstatus = "built" =>
        /\ nStages = 2 /\ curStage = "runner"
        /\ \A f \in RunnerFiles : FromPublic(f) \/ FromStatic(f) \/ FromStandalone(f)
        /\ \E f \in RunnerFiles : FromPublic(f)
        /\ \E f \in RunnerFiles : FromStatic(f)
        /\ imgCmd = << "node", "server.js" >>
        /\ workdir \o << "server.js" >> \in RunnerFiles
        /\ << "PORT", "3000" >> \in imgEnv
        /\ imgExpose = { "3000" }

\* C6 witness: a build has finished whose context held .env, which reached the
\* builder stage.
C6_Witness ==
    /\ dstatus = "built"
    /\ << ".env" >> \in context
    /\ << "app", ".env" >> \in BuilderFiles

(***************************************************************************)
(* The Local API on the 'posts' collection and its access control.         *)
(***************************************************************************)
PostIds == 1..MaxPosts
UserIds == 1..MaxUsers
NoPost  == 0

\* the roles of the users: the first user is the administrator
Roles(u) == IF u = 1 THEN {"admin"} ELSE {"user"}

\* what an access function returns: a boolean, or a query constraint on author
Allow(b)         == [allow |-> b, author |-> 0]
AuthorEquals(id) == [allow |-> TRUE, author |-> id]
NoWhere          == Allow(TRUE)

\* const ownPostsOnly: Access = ({ req: { user } }) => ...
ownPostsOnly(user) ==
    IF user = NoUser THEN Allow(FALSE)
    ELSE IF "admin" \in Roles(user) THEN Allow(TRUE)
    ELSE AuthorEquals(user)

\* the stored posts as documents
PostDocs == { [id |-> i, author |-> posts[i]] : i \in { j \in PostIds : posts[j] # NoPost } }

\* a document satisfies a boolean or a query constraint
Matches(w, doc) == w.allow /\ (w.author # 0 => doc.author = w.author)

\* overrideAccess defaulting to false
OverrideAccessDefaultFalse(oa) == oa = "true"

\* overrideAccess of a Local API call: true unless false is passed
OverrideAccess(oa) == IF oa = "omitted" THEN TRUE ELSE oa = "true"

\* payload.find({ collection: 'posts', where, user, overrideAccess })
Find(where, user, oa) ==
    { d \in PostDocs : /\ Matches(where, d)
                       /\ OverrideAccess(oa) \/ Matches(ownPostsOnly(user), d) }

PostsInit ==
    /\ posts = [i \in PostIds |-> NoPost]
    /\ findArgs = [user |-> NoUser, overrideAccess |-> "omitted"]
    /\ findResult = {}

EndpointOff ==
    /\ epc = "off" /\ reqUser = NoUser /\ queries = << >> /\ data = {}
    /\ response = << >>

\* payload.create({ collection: 'posts', data: { author } })
CreatePost(id, author) ==
    /\ posts[id] = NoPost
    /\ posts' = [posts EXCEPT ![id] = author]
    /\ UNCHANGED <<epc, reqUser, queries, data, response, findArgs, findResult, notApi>>

\* payload.delete({ collection: 'posts', id })
DeletePost(id) ==
    /\ posts[id] # NoPost
    /\ posts' = [posts EXCEPT ![id] = NoPost]
    /\ UNCHANGED <<epc, reqUser, queries, data, response, findArgs, findResult, notApi>>

\* await payload.find({ collection: 'posts', user, overrideAccess })
LocalFind(user, oa) ==
    /\ findArgs' = [user |-> user, overrideAccess |-> oa]
    /\ findResult' = Find(NoWhere, user, oa)
    /\ UNCHANGED <<posts, epc, reqUser, queries, data, response, notApi>>

ApiNext ==
    \/ \E id \in PostIds, a \in UserIds : CreatePost(id, a)
    \/ \E id \in PostIds : DeletePost(id)
    \/ \E u \in {NoUser} \cup UserIds, oa \in {"omitted", "true", "false"} : LocalFind(u, oa)

InitApi == PostsInit /\ EndpointOff /\ CmsIdle /\ HomeIdle /\ DockerIdle /\ RulesIdle /\ MoreIdle

SpecApi == InitApi /\ [][ApiNext]_vars

\* the last step was a payload.find
FindStep == posts' = posts /\ <<findArgs, findResult>>' # <<findArgs, findResult>>

\* what the administrator gets when access control is enforced for them
AdminResult == Find(NoWhere, 1, "false")

\* C9: a find with overrideAccess omitted skips access control, whoever the
\* passed user is, and returns what an administrator would get (every stored
\* post); only a find with overrideAccess false returns exactly the documents
\* that the access function of the passed user allows.
C9_OverrideAccess ==
    [][FindStep =>
         /\ findArgs'.overrideAccess \in {"omitted", "true"} =>
               findResult' = AdminResult /\ findResult' = PostDocs
         /\ findArgs'.overrideAccess = "false" =>
               findResult' = { d \in PostDocs : Matches(ownPostsOnly(findArgs'.user), d) }
      ]_vars

\* C9 witness: a non-admin user was passed with overrideAccess omitted and the
\* find returned a post of another author.
C9_Witness ==
    /\ findArgs.overrideAccess = "omitted"
    /\ findArgs.user # NoUser /\ "admin" \notin Roles(findArgs.user)
    /\ \E d \in findResult : d.author # findArgs.user

(***************************************************************************)
(* protectedEndpoint: a custom endpoint that checks req.user itself.       *)
(***************************************************************************)
NoResponse == [kind |-> "none", status |-> 0, message |-> "", docs |-> {}]

\* a find without the author constraint
ProtectedWhereNone(user) == NoWhere

\* where: { author: { equals: req.user.id } }
ProtectedWhere(user) == AuthorEquals(user)

EndpointInit ==
    /\ posts = [i \in PostIds |-> NoPost]
    /\ epc = "idle" /\ reqUser = NoUser /\ queries = << >> /\ data = {}
    /\ response = NoResponse

FindOff == findArgs = << >> /\ findResult = {}

\* a GET /protected arrives; req.user is set by the framework when the request
\* carries valid credentials, nothing else authenticates a custom endpoint
Receive(user) ==
    /\ epc = "idle"
    /\ reqUser' = user
    /\ queries' = << >> /\ data' = {} /\ response' = NoResponse
    /\ epc' = "check"
    /\ UNCHANGED <<posts, findArgs, findResult, notApi>>

\* if (!req.user) { throw new APIError('Unauthorized', 401) }
CheckUser ==
    /\ epc = "check"
    /\ IF reqUser = NoUser
         THEN /\ response' = [kind |-> "APIError", status |-> 401,
                              message |-> "Unauthorized", docs |-> {}]
              /\ epc' = "done"
         ELSE /\ epc' = "find"
              /\ UNCHANGED response
    /\ UNCHANGED <<posts, reqUser, queries, data, findArgs, findResult, notApi>>

\* const data = await req.payload.find({ collection: 'posts', where: ... })
EndpointFind ==
    /\ epc = "find"
    /\ queries' = Append(queries, [collection |-> "posts", where |-> ProtectedWhere(reqUser)])
    /\ data' = Find(ProtectedWhere(reqUser), NoUser, "omitted")
    /\ epc' = "respond"
    /\ UNCHANGED <<posts, reqUser, response, findArgs, findResult, notApi>>

\* return Response.json(data)
Respond ==
    /\ epc = "respond"
    /\ response' = [kind |-> "json", status |-> 200, message |-> "", docs |-> data]
    /\ epc' = "done"
    /\ UNCHANGED <<posts, reqUser, queries, data, findArgs, findResult, notApi>>

\* the response has been sent; the handler is ready for the next request
Finish ==
    /\ epc = "done"
    /\ epc' = "idle"
    /\ UNCHANGED <<posts, reqUser, queries, data, response, findArgs, findResult, notApi>>

EndpointNext ==
    \/ \E id \in PostIds, a \in UserIds : CreatePost(id, a)
    \/ \E id \in PostIds : DeletePost(id)
    \/ \E u \in {NoUser} \cup UserIds : Receive(u)
    \/ CheckUser
    \/ EndpointFind
    \/ Respond
    \/ Finish

InitEndpoint == EndpointInit /\ FindOff /\ CmsIdle /\ HomeIdle /\ DockerIdle /\ RulesIdle /\ MoreIdle

SpecEndpoint == InitEndpoint /\ [][EndpointNext]_vars

\* C10: a request without req.user is answered by APIError('Unauthorized', 401)
\* and no database query has been issued for it; a request with req.user issues
\* exactly one query, on posts with author equal to that user's id, and the JSON
\* response holds the documents of that query, all of that author.
C10_ProtectedEndpoint ==
    /\ (epc \in {"find", "respond"} \/ response.kind = "json") => reqUser # NoUser
    /\ (epc # "idle" /\ reqUser = NoUser) => queries = << >>
    /\ (epc = "done" /\ reqUser = NoUser) =>
          response = [kind |-> "APIError", status |-> 401,
                      message |-> "Unauthorized", docs |-> {}]
    /\ \A i \in DOMAIN queries :
          queries[i] = [collection |-> "posts", where |-> AuthorEquals(reqUser)]
    /\ (epc = "done" /\ reqUser # NoUser) =>
          /\ Len(queries) = 1
          /\ response.kind = "json" /\ response.docs = data
          /\ \A d \in response.docs : d.author = reqUser

\* C10 witness: a logged-in user got a JSON response with a post of theirs while
\* a post of another author is stored.
C10_WitnessUser ==
    /\ epc = "done" /\ reqUser # NoUser
    /\ response.kind = "json" /\ response.docs # {}
    /\ \E d \in PostDocs : d.author # reqUser

(***************************************************************************)
(* The access functions of the rules.  Each is a pure function of the      *)
(* request (req.user, req.headers) and of the document it is asked about;  *)
(* SpecAccess draws the request from bounded sets and applies them.        *)
(***************************************************************************)
\* req.user: null (present FALSE), or a user document with an id and with or
\* without a roles value (options 'admin', 'editor', 'user'); an id that is
\* undefined is written 0
ReqUsers ==
    {[present |-> FALSE, id |-> 0, hasRoles |-> FALSE, roles |-> {}]} \cup
    {u \in [present : {TRUE}, id : UserIds, hasRoles : BOOLEAN,
            roles : SUBSET {"admin", "editor", "user"}] :
        ~u.hasRoles => u.roles = {}}

\* the values an access function returns: true, false, undefined, or the
\* query constraint { id: { equals: v } }
JsBool(b)    == [kind |-> "boolean", bool |-> b, equals |-> 0]
JsUndefined  == [kind |-> "undefined", bool |-> FALSE, equals |-> 0]
IdEquals(v)  == [kind |-> "where", bool |-> FALSE, equals |-> v]

\* user?.roles?.includes(role): undefined when user is null or has no roles
RolesIncludes(user, role) ==
    IF user.present /\ user.hasRoles THEN JsBool(role \in user.roles)
    ELSE JsUndefined

salaryRead(user, doc) ==
    IF user.id = doc THEN JsBool(TRUE) ELSE RolesIncludes(user, "admin")

salaryUpdate(user) == RolesIncludes(user, "admin")

rolesUpdate(user) == RolesIncludes(user, "admin")

adminOrSelfAnyUser(user) ==
    IF user.present THEN JsBool(TRUE) ELSE IdEquals(user.id)

adminOrSelf(user) ==
    IF RolesIncludes(user, "admin") = JsBool(TRUE) THEN JsBool(TRUE)
    ELSE IdEquals(user.id)

\* the documents of the collection an access result lets the request reach:
\* all for true, those matching the constraint for a constraint, none otherwise
Granted(result) ==
    CASE result.kind = "boolean" /\ result.bool -> accDocs
      [] result.kind = "where" -> {d \in accDocs : d = result.equals}
      [] OTHER -> {}

\* header values and allowedIps entries are strings: null (no header), or the
\* text of dotted octets with an optional "/bits" suffix (suffix 0: none)
NoHeader      == [kind |-> "null", addr |-> << >>, suffix |-> 0]
Text(a, bits) == [kind |-> "text", addr |-> a, suffix |-> bits]

internalIps == << Text(<<192, 168, 1, 0>>, 24), Text(<<10, 0, 0, 5>>, 0) >>

\* a || b
Or(a, b) == IF a.kind = "text" /\ a.addr # << >> THEN a ELSE b

restrictedIpAccess(allowedIps, h) ==
    LET ip == Or(h.xff, h.xri)
    IN  JsBool(\E i \in DOMAIN allowedIps : allowedIps[i] = Or(ip, Text(<< >>, 0)))

AccessInit ==
    /\ accUser \in ReqUsers
    /\ accHeaders \in
          [xff : { NoHeader, Text(<< >>, 0), Text(<<192, 168, 1, 7>>, 0),
                   Text(<<10, 0, 0, 5>>, 0), Text(<<8, 8, 8, 8>>, 0),
                   Text(<<192, 168, 1, 0>>, 24) },
           xri : { NoHeader, Text(<<10, 0, 0, 5>>, 0) }]
    /\ accDocs \in SUBSET UserIds
    /\ accDoc \in accDocs \cup {0}
    /\ accAllowed \in { internalIps, << Text(<<10, 0, 0, 5>>, 0) >> }
    /\ accCall = "none"
    /\ accResult = JsUndefined

Called(fn, result) ==
    /\ accCall' = fn
    /\ accResult' = result
    /\ UNCHANGED <<accUser, accHeaders, accDocs, accDoc, accAllowed, notAccess>>

AccessNext ==
    \/ Called("salary.read", salaryRead(accUser, accDoc))
    \/ Called("salary.update", salaryUpdate(accUser))
    \/ Called("roles.update", rolesUpdate(accUser))
    \/ Called("adminOrSelf", adminOrSelf(accUser))
    \/ Called("restrictedIpAccess", restrictedIpAccess(accAllowed, accHeaders))

InitAccess ==
    /\ AccessInit /\ AppIdle /\ HookIdle /\ LoopIdle /\ ManualIdle /\ PagesIdle
    /\ TenantIdle /\ SubIdle /\ MoreIdle

SpecAccess == InitAccess /\ [][AccessNext]_vars

\* C11: whatever the request, the salary field's read and update functions and
\* the roles field's update function return a boolean (true or false), never
\* a query constraint and never any other value.
C11_FieldAccessBoolean ==
    accCall \in {"salary.read", "salary.update", "roles.update"} =>
        accResult.kind = "boolean"

\* C16: adminOrSelf lets a user whose roles include 'admin' reach every
\* document, any other user only the document whose id is the user's own id,
\* and a request without a user no document.
C16_AdminOrSelf ==
    accCall = "adminOrSelf" =>
        Granted(accResult) =
            IF "admin" \in accUser.roles THEN accDocs
            ELSE IF accUser.present THEN accDocs \cap {accUser.id}
            ELSE {}

\* C16 witness: with every user document stored, a user who is no admin got
\* a constraint that reaches the own document only.
C16_Witness ==
    /\ accCall = "adminOrSelf" /\ accUser.present /\ "admin" \notin accUser.roles
    /\ accDocs = UserIds /\ Cardinality(accDocs) > 1
    /\ Granted(accResult) = {accUser.id}

\* the address the function takes for the client's, and whether an entry of
\* allowedIps covers it: an address covers itself, a.b.c.d/bits covers the
\* addresses that share its first bits (whole octets)
ClientIp == Or(accHeaders.xff, accHeaders.xri)

Covers(entry, ip) ==
    /\ ip.kind = "text" /\ ip.suffix = 0 /\ Len(ip.addr) = 4
    /\ IF entry.suffix = 0 THEN entry.addr = ip.addr
       ELSE SubSeq(entry.addr, 1, entry.suffix \div 8)
                = SubSeq(ip.addr, 1, entry.suffix \div 8)

\* C20: restrictedIpAccess(allowedIps) returns true exactly for the requests
\* whose client address is covered by an entry of allowedIps (with
\* ['192.168.1.0/24', '10.0.0.5']: 192.168.1.7 and 10.0.0.5 are granted), and
\* false for every other request, one without an IP header included.
C20_IpCoverage ==
    accCall = "restrictedIpAccess" =>
        accResult = JsBool(\E i \in DOMAIN accAllowed : Covers(accAllowed[i], ClientIp))

(***************************************************************************)
(* An update of a parent document whose afterChange hook re-saves the      *)
(* children, inside the parent's transaction (req passed) or outside it.   *)
(***************************************************************************)
ParentIds == 1..MaxParents
ChildIds  == 1..MaxChildren

\* whether the hook passes req to its nested operations
PassesReqNever(h) == FALSE

PassesReq(h) == h = "resaveChildren"

\* children.docs of find({ where: { parent: { equals: id } } })
ChildrenOf(id) == {c \in ChildIds : children[c].parent = id}

HookInit ==
    /\ hook \in {"resaveChildren", "brokenHook"}
    /\ txEnabled \in BOOLEAN
    /\ parents = [p \in ParentIds |-> "old"]
    /\ children \in [ChildIds -> [parent : ParentIds, updatedField : {"old"}]]
    /\ txWrites = {} /\ nested = {} /\ todo = {} /\ hpc = "idle" /\ target = 0

\* the database after the writes ws have been applied to it
ParentsWith(ws) ==
    [p \in ParentIds |-> IF <<"parents", p>> \in ws THEN "new" ELSE parents[p]]
ChildrenWith(ws) ==
    [c \in ChildIds |->
        IF <<"children", c>> \in ws
        THEN [children[c] EXCEPT !.updatedField = "value"] ELSE children[c]]

\* a write: staged when it is issued in the parent's transaction and the
\* adapter has transactions, applied to the database at once otherwise
Write(w, inTx) ==
    IF inTx /\ txEnabled
    THEN txWrites' = txWrites \cup {w} /\ UNCHANGED <<parents, children>>
    ELSE /\ parents' = ParentsWith({w}) /\ children' = ChildrenWith({w})
         /\ UNCHANGED txWrites

\* payload.update of a parent document: the change is written, then the
\* afterChange hook starts and finds the children of the document
UpdateParent(id) ==
    /\ hpc = "idle"
    /\ Write(<<"parents", id>>, TRUE)
    /\ target' = id
    /\ todo' = ChildrenOf(id)
    /\ hpc' = "hook"
    /\ UNCHANGED <<hook, txEnabled, nested, notHook>>

\* one round of the hook's loop: payload.update of the next child
UpdateChild ==
    /\ hpc = "hook" /\ todo # {}
    /\ LET child == CHOOSE c \in todo : \A d \in todo : c <= d
       IN  /\ Write(<<"children", child>>, PassesReq(hook))
           /\ nested' = nested \cup {child}
           /\ todo' = todo \ {child}
    /\ UNCHANGED <<hook, txEnabled, hpc, target, notHook>>

\* the hook has returned and the parent operation commits its transaction
OperationCommits ==
    /\ hpc = "hook" /\ todo = {}
    /\ parents' = ParentsWith(txWrites) /\ children' = ChildrenWith(txWrites)
    /\ txWrites' = {}
    /\ hpc' = "committed"
    /\ UNCHANGED <<hook, txEnabled, nested, todo, target, notHook>>

\* a nested update, or a later step of the parent operation, throws: the
\* parent operation fails and its transaction is rolled back
OperationFails ==
    /\ hpc = "hook"
    /\ txWrites' = {}
    /\ hpc' = "failed"
    /\ UNCHANGED <<hook, txEnabled, parents, children, nested, todo, target, notHook>>

HookNext ==
    \/ \E id \in ParentIds : UpdateParent(id)
    \/ UpdateChild
    \/ OperationCommits
    \/ OperationFails

InitHook ==
    /\ HookInit /\ AppIdle /\ AccessIdle /\ LoopIdle /\ ManualIdle /\ PagesIdle
    /\ TenantIdle /\ SubIdle /\ MoreIdle

SpecHook == InitHook /\ [][HookNext]_vars

ParentPersisted == parents[target] = "new"
Resaved         == {c \in ChildIds : children[c].updatedField = "value"}
BothOrNeither   == IF ParentPersisted THEN Resaved = ChildrenOf(target)
                   ELSE Resaved = {}
Remains         == nested \subseteq Resaved

\* C12 as stated: with req passed (resaveChildren) an operation that has ended
\* left both the parent's change and the children's changes, or neither; with
\* req not passed (brokenHook) every nested change remains, also when the
\* parent operation has failed.
C12_BothOrNeither ==
    /\ (hook = "resaveChildren" /\ hpc \in {"committed", "failed"}) => BothOrNeither
    /\ hook = "brokenHook" => Remains

\* C12 amended: the same, for an adapter that runs with transactions; on an
\* adapter without transactions every nested change remains, req or not.
C12_SharedTransaction ==
    /\ (hook = "resaveChildren" /\ txEnabled /\ hpc \in {"committed", "failed"})
           => BothOrNeither
    /\ (hook = "brokenHook" \/ ~txEnabled) => Remains
    /\ (txEnabled /\ hpc = "failed") => ~ParentPersisted

\* C12 witness: with transactions, resaveChildren updated a child, the parent
\* operation failed, and neither change is in the database.
C12_Witness ==
    /\ hook = "resaveChildren" /\ txEnabled /\ hpc = "failed"
    /\ nested # {} /\ Resaved = {} /\ ~ParentPersisted

(***************************************************************************)
(* The afterChange hook of 'posts' that counts views by updating its own   *)
(* document, with the context flag (flagged) and without it.               *)
(***************************************************************************)
\* if (context.skipHooks) return: whether an invocation with context ctx skips
SkipsNever(ctx) == FALSE

Skips(ctx) == flagged /\ ctx.skipHooks

\* the context the hook gives to its nested update
NestedContext == [skipHooks |-> flagged]

LoopInit ==
    /\ flagged \in BOOLEAN
    /\ views \in [PostIds -> 0..1]
    /\ frames = << >> /\ updates = 0 /\ changes = 0

Top == frames[Len(frames)]

\* an update from outside, with an empty context: the document is written
\* and the afterChange hook is invoked
ExternalUpdate(id) ==
    /\ frames = << >> /\ changes < MaxChanges
    /\ frames' = << [id |-> id, context |-> [skipHooks |-> FALSE], at |-> "hook"] >>
    /\ updates' = 0
    /\ changes' = changes + 1
    /\ UNCHANGED <<flagged, views, notLoop>>

\* the hook issues req.payload.update({ data: { views: doc.views + 1 } }) and
\* awaits it: the document is written and the hook is invoked for that update
HookUpdates ==
    /\ frames # << >> /\ Top.at = "hook" /\ ~Skips(Top.context)
    /\ Len(frames) < MaxDepth
    /\ views' = [views EXCEPT ![Top.id] = @ + 1]
    /\ updates' = updates + 1
    /\ frames' = [frames EXCEPT ![Len(frames)].at = "await"]
                     \o << [id |-> Top.id, context |-> NestedContext, at |-> "hook"] >>
    /\ UNCHANGED <<flagged, changes, notLoop>>

\* the hook returns, at once (flag set) or after its awaited update, and the
\* operation it was invoked for completes
HookReturns ==
    /\ frames # << >>
    /\ (Top.at = "hook" /\ Skips(Top.context)) \/ Top.at = "await"
    /\ frames' = SubSeq(frames, 1, Len(frames) - 1)
    /\ UNCHANGED <<flagged, views, updates, changes, notLoop>>

LoopNext ==
    \/ \E id \in PostIds : ExternalUpdate(id)
    \/ HookUpdates
    \/ HookReturns

InitLoop ==
    /\ LoopInit /\ AppIdle /\ AccessIdle /\ HookIdle /\ ManualIdle /\ PagesIdle
    /\ TenantIdle /\ SubIdle /\ MoreIdle

SpecLoop == InitLoop /\ [][LoopNext]_vars

SpecLoopFair == SpecLoop /\ WF_vars(LoopNext)

\* C13: with the context flag at most two operations are ever in progress (the
\* external change and the one nested update), every external change that
\* has been started completes, and when it completes exactly one nested
\* update has been issued for it; without the flag no operation completes:
\* every step is one more nested update.
C13_ContextFlag ==
    /\ [](flagged => (Len(frames) <= 2 /\ updates <= 1))
    /\ [][(flagged /\ frames # << >> /\ frames' = << >>) => updates = 1]_vars
    /\ (flagged /\ frames # << >>) ~> (frames = << >>)
    /\ [][(~flagged /\ frames # << >>) =>
             (Len(frames') = Len(frames) + 1 /\ updates' = updates + 1)]_vars

\* C13 witness: with the flag an external change has completed, with one nested
\* update.
C13_Witness == flagged /\ changes > 0 /\ frames = << >> /\ updates = 1

\* C13 second witness: without the flag the hook has re-triggered itself as
\* deep as the model follows it.
C13_WitnessLoop == ~flagged /\ Len(frames) = MaxDepth /\ updates = MaxDepth - 1

(***************************************************************************)
(* Manual transaction control: an order is created and the inventory is    *)
(* updated between beginTransaction and commitTransaction.                 *)
(***************************************************************************)
\* whether a rejected call inside try reaches the catch clause's rollback
CatchSkipsRollback == FALSE

CatchRollsBack == TRUE

ManualInit ==
    /\ mpc = "begin"
    /\ minput \in [orderData : {"order-a", "order-b"}, itemId : 1..MaxItems,
                   newStock : 0..(MaxStock - 1)]
    /\ mcalls = << >>
    /\ orders = {}
    /\ stock = [i \in 1..MaxItems |-> MaxStock]
    /\ mstaged = {} /\ merror = "" /\ mthrown = ""

\* const transactionID = await payload.db.beginTransaction(), outside try
BeginTransaction(ok) ==
    /\ mpc = "begin"
    /\ mcalls' = Append(mcalls, "beginTransaction")
    /\ IF ok THEN mpc' = "create" /\ UNCHANGED mthrown
       ELSE mpc' = "thrown" /\ mthrown' = "beginTransaction"
    /\ UNCHANGED <<minput, orders, stock, mstaged, merror, notManual>>

\* await payload.create({ collection: 'orders', ..., req: { transactionID } })
CreateOrder ==
    /\ mpc = "create"
    /\ mcalls' = Append(mcalls, "create")
    /\ mstaged' = mstaged \cup { <<"orders", minput.orderData>> }
    /\ mpc' = "update"
    /\ UNCHANGED <<minput, orders, stock, merror, mthrown, notManual>>

\* await payload.update({ collection: 'inventory', id: itemId, ... })
UpdateInventory ==
    /\ mpc = "update"
    /\ mcalls' = Append(mcalls, "update")
    /\ mstaged' = mstaged \cup { <<"inventory", minput.itemId, minput.newStock>> }
    /\ mpc' = "commit"
    /\ UNCHANGED <<minput, orders, stock, merror, mthrown, notManual>>

\* await payload.db.commitTransaction(transactionID): the staged writes reach
\* the database together
CommitTransaction ==
    /\ mpc = "commit"
    /\ mcalls' = Append(mcalls, "commitTransaction")
    /\ orders' = orders \cup { w[2] : w \in { v \in mstaged : v[1] = "orders" } }
    /\ stock' = [i \in 1..MaxItems |->
                    IF \E w \in mstaged : w[1] = "inventory" /\ w[2] = i
                    THEN (CHOOSE w \in mstaged : w[1] = "inventory" /\ w[2] = i)[3]
                    ELSE stock[i]]
    /\ mstaged' = {}
    /\ mpc' = "returned"
    /\ UNCHANGED <<minput, merror, mthrown, notManual>>

\* the awaited call of the current position rejects: control passes to catch
Rejects ==
    /\ mpc \in {"create", "update", "commit"}
    /\ LET call == IF mpc = "commit" THEN "commitTransaction" ELSE mpc
       IN  /\ mcalls' = Append(mcalls, call)
           /\ merror' = call
           /\ IF CatchRollsBack THEN mpc' = "catch" /\ UNCHANGED mthrown
              ELSE mpc' = "thrown" /\ mthrown' = call
    /\ UNCHANGED <<minput, orders, stock, mstaged, notManual>>

\* catch: await payload.db.rollbackTransaction(transactionID); throw error
RollbackTransaction(ok) ==
    /\ mpc = "catch"
    /\ mcalls' = Append(mcalls, "rollbackTransaction")
    /\ mstaged' = {}
    /\ mthrown' = IF ok THEN merror ELSE "rollbackTransaction"
    /\ mpc' = "thrown"
    /\ UNCHANGED <<minput, orders, stock, merror, notManual>>

ManualNext ==
    \/ \E ok \in BOOLEAN : BeginTransaction(ok)
    \/ CreateOrder
    \/ UpdateInventory
    \/ CommitTransaction
    \/ Rejects
    \/ \E ok \in BOOLEAN : RollbackTransaction(ok)

InitManual ==
    /\ ManualInit /\ AppIdle /\ AccessIdle /\ HookIdle /\ LoopIdle /\ PagesIdle
    /\ TenantIdle /\ SubIdle /\ MoreIdle

SpecManual == InitManual /\ [][ManualNext]_vars

Count(call)    == Cardinality({i \in DOMAIN mcalls : mcalls[i] = call})
Ended          == mpc \in {"returned", "thrown"}
Begun          == mthrown # "beginTransaction"
OrderStored    == minput.orderData \in orders
StockUpdated   == stock[minput.itemId] = minput.newStock
BothSucceeded  ==
    \E i, j \in DOMAIN mcalls :
        /\ i < j /\ mcalls[i] = "create" /\ mcalls[j] = "update"
        /\ \A k \in DOMAIN mcalls : mcalls[k] = "commitTransaction" => j < k
        /\ Count("create") = 1 /\ Count("update") = 1

PageIds == 1..MaxPages

\* a stored page: _status of the document, _status of its latest version (a
\* draft saved over a published page leaves the document published), and
\* whether it has been published before
NoPage == [status |-> "none", latest |-> "none", wasPublished |-> FALSE]

\* the constraint { _status: { equals: s } }
StatusEquals(s) == [kind |-> "where", bool |-> FALSE, equals |-> 0, status |-> s]

authenticatedOrAnything(user) == JsBool(TRUE)

authenticatedOrPublished(user) ==
    IF user # NoUser THEN JsBool(TRUE) ELSE StatusEquals("published")

PagesInit ==
    /\ pages = [id \in PageIds |-> NoPage]
    /\ readReq = [user |-> NoUser, draft |-> FALSE]
    /\ readDocs = {}

\* payload.create({ collection: 'pages', draft })
CreatePage(id, draft) ==
    /\ pages[id] = NoPage
    /\ pages' = [pages EXCEPT ![id] =
                    IF draft
                    THEN [status |-> "draft", latest |-> "draft", wasPublished |-> FALSE]
                    ELSE [status |-> "published", latest |-> "published",
                          wasPublished |-> TRUE]]
    /\ UNCHANGED <<readReq, readDocs, notPages>>

\* a draft is saved (autosave, or update with draft: true)
SaveDraft(id) ==
    /\ pages[id] # NoPage
    /\ pages' = [pages EXCEPT ![id].latest = "draft"]
    /\ UNCHANGED <<readReq, readDocs, notPages>>

\* the page is published (by an update, or by schedulePublish)
Publish(id) ==
    /\ pages[id] # NoPage
    /\ pages' = [pages EXCEPT ![id] =
                    [status |-> "published", latest |-> "published",
                     wasPublished |-> TRUE]]
    /\ UNCHANGED <<readReq, readDocs, notPages>>

\* the page is unpublished: its _status is 'draft' again
Unpublish(id) ==
    /\ pages[id].status = "published"
    /\ pages' = [pages EXCEPT ![id].status = "draft", ![id].latest = "draft"]
    /\ UNCHANGED <<readReq, readDocs, notPages>>

\* find on pages with access control: with draft: true the latest version of
\* each page is read, else the document; the access result is applied to it
FindPages(user, draft) ==
    /\ readReq' = [user |-> user, draft |-> draft]
    /\ LET access     == authenticatedOrPublished(user)
           StatusOf(id) == IF draft THEN pages[id].latest ELSE pages[id].status
           Readable(id) ==
               \/ access.kind = "boolean" /\ access.bool
               \/ access.kind = "where" /\ StatusOf(id) = access.status
       IN  readDocs' = { [id |-> id, status |-> StatusOf(id)] :
                           id \in { i \in PageIds : pages[i] # NoPage /\ Readable(i) } }
    /\ UNCHANGED <<pages, notPages>>

PagesNext ==
    \/ \E id \in PageIds, draft \in BOOLEAN : CreatePage(id, draft)
    \/ \E id \in PageIds : SaveDraft(id)
    \/ \E id \in PageIds : Publish(id)
    \/ \E id \in PageIds : Unpublish(id)
    \/ \E user \in {NoUser} \cup UserIds, draft \in BOOLEAN : FindPages(user, draft)

InitPages ==
    /\ PagesInit /\ AppIdle /\ AccessIdle /\ HookIdle /\ LoopIdle /\ ManualIdle
    /\ TenantIdle /\ SubIdle /\ MoreIdle

SpecPages == InitPages /\ [][PagesNext]_vars

\* C15: a find without a user returns only documents whose _status is
\* 'published', and none of a page whose _status is 'draft', whether that page
\* was never published or was published and then unpublished; a find with a
\* user returns every stored page.
C15_PublishedOnly ==
    [][pages' = pages =>
          /\ readReq'.user = NoUser =>
                /\ \A d \in readDocs' : d.status = "published"
                /\ \A d \in readDocs' : pages[d.id].status = "published"
          /\ readReq'.user # NoUser =>
                { d.id : d \in readDocs' } = { i \in PageIds : pages[i] # NoPage }]_vars

\* C15 witness: a find without a user returned a published page and not the
\* page that had been published and was unpublished again.
C15_Witness ==
    /\ readReq.user = NoUser
    /\ \E i, j \in PageIds :
          /\ pages[i].status = "draft" /\ pages[i].wasPublished
          /\ pages[j].status = "published"
          /\ { d.id : d \in readDocs } = {j}

(***************************************************************************)
(* The multi-tenant 'posts' collection: tenantAccess on create, read,      *)
(* update and delete, and the tenant field with its update access and its  *)
(* beforeChange hook.                                                      *)
(***************************************************************************)
TenantPostIds == 1..MaxTenantPosts
Tenants       == {"tenant-a", "tenant-b"}
NoTenantPost  == [tenant |-> "", title |-> ""]

\* req.user: null (present FALSE) or a User with a tenantId and roles
TenantUsers ==
    {[present |-> FALSE, tenantId |-> "", roles |-> {}]} \cup
    [present : {TRUE}, tenantId : Tenants, roles : {{"super-admin"}, {"editor"}, {}}]

\* the constraint { tenant: { equals: t } }
TenantEquals(t) == [kind |-> "where", bool |-> FALSE, equals |-> 0, tenant |-> t]

tenantAccessOpen(user) == JsBool(user.present)

tenantAccess(user) ==
    IF ~user.present THEN JsBool(FALSE)
    ELSE IF "super-admin" \in user.roles THEN JsBool(TRUE)
    ELSE TenantEquals(user.tenantId)

\* access.update of the tenant field; undefined counts as a denial
tenantFieldUpdate(user) == user.present /\ "super-admin" \in user.roles

\* the beforeChange hook of the tenant field ("" is the value that is not given)
tenantBeforeChange(user, operation, value) ==
    IF operation = "create" /\ value = "" THEN user.tenantId ELSE value

\* whether a collection access result lets the request act on a stored post; an
\* operation with no stored post (create) is allowed by any result but false
Permits(access, post) ==
    \/ access.kind = "boolean" /\ access.bool
    \/ access.kind = "where" /\ (post = NoTenantPost \/ post.tenant = access.tenant)

TenantInit ==
    /\ tposts = [id \in TenantPostIds |-> NoTenantPost]
    /\ tlast = [op |-> "none", user |-> CHOOSE u \in TenantUsers : ~u.present,
                id |-> 0, tenant |-> "", ok |-> FALSE, docs |-> {}]

Request(op, user, id, tenant, ok, docs) ==
    tlast' = [op |-> op, user |-> user, id |-> id, tenant |-> tenant, ok |-> ok,
              docs |-> docs]

\* create: collection access, the field's beforeChange hook, then the
\* validation of the required tenant
TenantCreate(user, id, tenant, title) ==
    /\ tposts[id] = NoTenantPost
    /\ LET value == tenantBeforeChange(user, "create", tenant)
           ok    == Permits(tenantAccess(user), NoTenantPost) /\ value # ""
       IN  /\ tposts' = IF ok THEN [tposts EXCEPT ![id] = [tenant |-> value,
                                                          title |-> title]]
                        ELSE tposts
           /\ Request("create", user, id, tenant, ok, IF ok THEN {id} ELSE {})
    /\ UNCHANGED notTenant

\* find: the posts the read access lets through
TenantRead(user) ==
    /\ Request("read", user, 0, "", TRUE,
               {id \in TenantPostIds :
                   tposts[id] # NoTenantPost /\ Permits(tenantAccess(user), tposts[id])})
    /\ UNCHANGED <<tposts, notTenant>>

\* update by id: collection access on the stored post; a tenant value is
\* taken only if the field's update access allows it, then the hook runs
TenantUpdate(user, id, tenant, title) ==
    /\ LET ok    == tposts[id] # NoTenantPost /\ Permits(tenantAccess(user), tposts[id])
           given == IF tenantFieldUpdate(user) /\ tenant # "" THEN tenant
                    ELSE tposts[id].tenant
           value == tenantBeforeChange(user, "update", given)
       IN  /\ tposts' = IF ok THEN [tposts EXCEPT ![id] = [tenant |-> value,
                                                          title |-> title]]
                        ELSE tposts
           /\ Request("update", user, id, tenant, ok, IF ok THEN {id} ELSE {})
    /\ UNCHANGED notTenant

\* delete by id: collection access on the stored post
TenantDelete(user, id) ==
    /\ LET ok == tposts[id] # NoTenantPost /\ Permits(tenantAccess(user), tposts[id])
       IN  /\ tposts' = IF ok THEN [tposts EXCEPT ![id] = NoTenantPost] ELSE tposts
           /\ Request("delete", user, id, "", ok, IF ok THEN {id} ELSE {})
    /\ UNCHANGED notTenant

TenantNext ==
    \/ \E user \in TenantUsers, id \in TenantPostIds, tenant \in Tenants \cup {""},
          title \in {"t1", "t2"} : TenantCreate(user, id, tenant, title)
    \/ \E user \in TenantUsers : TenantRead(user)
    \/ \E user \in TenantUsers, id \in TenantPostIds, tenant \in Tenants \cup {""},
          title \in {"t1", "t2"} : TenantUpdate(user, id, tenant, title)
    \/ \E user \in TenantUsers, id \in TenantPostIds : TenantDelete(user, id)

InitTenant ==
    /\ TenantInit /\ AppIdle /\ AccessIdle /\ HookIdle /\ LoopIdle /\ ManualIdle
    /\ PagesIdle /\ SubIdle /\ MoreIdle

SpecTenant == InitTenant /\ [][TenantNext]_vars

\* C17: in every request of a user who is not super-admin (or of no user),
\* the posts read, and the stored posts changed or deleted, have the user's
\* tenantId as tenant; no stored post changes its tenant; and a post created
\* with no tenant value has the creating user's tenantId as tenant.
C17_TenantIsolation ==
    [][LET r == tlast'
       IN  "super-admin" \notin r.user.roles =>
             /\ r.op = "read" => \A id \in r.docs : tposts[id].tenant = r.user.tenantId
             /\ \A id \in TenantPostIds :
                   (tposts[id] # NoTenantPost /\ tposts'[id] # tposts[id]) =>
                       /\ tposts[id].tenant = r.user.tenantId
                       /\ tposts'[id] # NoTenantPost =>
                              tposts'[id].tenant = tposts[id].tenant
             /\ (r.op = "create" /\ r.ok /\ r.tenant = "") =>
                   tposts'[r.id].tenant = r.user.tenantId]_vars

\* C17 witness: a user who is not super-admin asked to move a post of the own
\* tenant to the other tenant; the update was made and the tenant is kept,
\* while a post of the other tenant is stored.
C17_Witness ==
    /\ tlast.op = "update" /\ tlast.ok /\ "super-admin" \notin tlast.user.roles
    /\ tlast.tenant # "" /\ tlast.tenant # tlast.user.tenantId
    /\ tposts[tlast.id].tenant = tlast.user.tenantId
    /\ \E id \in TenantPostIds :
          tposts[id] # NoTenantPost /\ tposts[id].tenant # tlast.user.tenantId

(***************************************************************************)
(* Subscription based access: activeSubscriptionAccess and                 *)
(* tierBasedAccess(requiredTier), which look the user's subscription up.   *)
(***************************************************************************)
NoSub    == [status |-> "none", tier |-> "none"]
JsThrown == [kind |-> "thrown", bool |-> FALSE, equals |-> 0]

\* await req.payload.findByID({ collection: 'subscriptions', id:
\* user.subscriptionId }).  The parameter pattern { req: { user } } binds user
\* only: req is the req of an enclosing scope if there is one (reqBound), and
\* a ReferenceError otherwise.  findByID throws when the database fails and
\* when no such document is stored.
Lookup ==
    IF reqBound /\ dbUp /\ subscription # NoSub
    THEN [threw |-> FALSE, doc |-> subscription]
    ELSE [threw |-> TRUE, doc |-> NoSub]

\* catch { return false }
OnCatchThrows == JsThrown

OnCatch == JsBool(FALSE)

activeSubscriptionAccess(user) ==
    IF ~user.present THEN JsBool(FALSE)
    ELSE IF RolesIncludes(user, "admin") = JsBool(TRUE) THEN JsBool(TRUE)
    ELSE IF Lookup.threw THEN OnCatch
    ELSE JsBool(Lookup.doc.status = "active")

tierHierarchy == << "free", "basic", "pro", "enterprise" >>

\* tierHierarchy.indexOf(name): the position counted from 0, or -1
IndexOf(name) ==
    IF \E i \in DOMAIN tierHierarchy : tierHierarchy[i] = name
    THEN (CHOOSE i \in DOMAIN tierHierarchy : tierHierarchy[i] = name) - 1
    ELSE -1

tierBasedAccess(required, user) ==
    IF ~user.present THEN JsBool(FALSE)
    ELSE IF RolesIncludes(user, "admin") = JsBool(TRUE) THEN JsBool(TRUE)
    ELSE IF Lookup.threw THEN OnCatch
    ELSE IF Lookup.doc.status # "active" THEN JsBool(FALSE)
    ELSE JsBool(IndexOf(Lookup.doc.tier) >= IndexOf(required))

SubscriptionInit ==
    /\ subUser \in ReqUsers
    /\ subscription \in
          {NoSub} \cup [status : {"active", "canceled"},
                        tier : {"free", "basic", "pro", "enterprise", "gold"}]
    /\ reqBound \in BOOLEAN
    /\ dbUp \in BOOLEAN
    /\ requiredTier \in {"free", "basic", "pro", "enterprise", "premium"}
    /\ subCall = "none"
    /\ subResult = JsUndefined

SubscriptionCalled(fn, result) ==
    /\ subCall' = fn
    /\ subResult' = result
    /\ UNCHANGED <<subUser, subscription, reqBound, dbUp, requiredTier, notSub>>

SubscriptionNext ==
    \/ SubscriptionCalled("activeSubscriptionAccess", activeSubscriptionAccess(subUser))
    \/ SubscriptionCalled("tierBasedAccess", tierBasedAccess(requiredTier, subUser))

InitSubscription ==
    /\ SubscriptionInit /\ AppIdle /\ AccessIdle /\ HookIdle /\ LoopIdle /\ ManualIdle
    /\ PagesIdle /\ TenantIdle /\ MoreIdle

SpecSubscription == InitSubscription /\ [][SubscriptionNext]_vars

SubAdmin == subUser.present /\ "admin" \in subUser.roles

\* C18: activeSubscriptionAccess never throws; it returns true for an admin,
\* false for a request without a user, false when the lookup fails, and for a
\* user who is no admin true exactly when the lookup succeeds with a
\* subscription whose status is 'active'.
C18_ActiveSubscription ==
    subCall = "activeSubscriptionAccess" =>
        /\ subResult.kind = "boolean"
        /\ SubAdmin => subResult.bool
        /\ ~subUser.present => ~subResult.bool
        /\ (subUser.present /\ ~SubAdmin) =>
              (subResult.bool <=> (~Lookup.threw /\ Lookup.doc.status = "active"))

\* C18 witness: for a user who is no admin the lookup failed (the database
\* did not answer), and the function returned false.
C18_Witness ==
    /\ subCall = "activeSubscriptionAccess" /\ subUser.present /\ ~SubAdmin
    /\ reqBound /\ ~dbUp /\ subscription.status = "active" /\ Lookup.threw
    /\ subResult = JsBool(FALSE)

\* the order free < basic < pro < enterprise; a name outside it has no rank
Rank(name) ==
    IF \E k \in 1..4 : tierHierarchy[k] = name
    THEN CHOOSE k \in 1..4 : tierHierarchy[k] = name
    ELSE 0

notDelete == <<appVars, ruleVars, revalVars, pubVars, pluginVars, onInitVars>>

CommentIds == 1..MaxComments

\* a JavaScript number
JsNumber(n) == [kind |-> "number", value |-> n, totalDocs |-> 0]

\* payload.count({ collection: 'comments', where: { post: { equals: id } } })
\* resolves to an object that carries the count as totalDocs
payloadCount(id) ==
    [kind |-> "object", value |-> 0,
     totalDocs |-> Cardinality({ c \in CommentIds : comments[c] = id })]

\* a === b: numbers are equal by value; an object that the call just created is
\* no number and is identical to nothing else
StrictEquals(a, b) == a.kind = "number" /\ b.kind = "number" /\ a.value = b.value

\* delete: async ({ req, id }) => { const hasComments = await req.payload.count(..)
\*                                  return hasComments === 0 }
deleteAccess(id) == StrictEquals(payloadCount(id), JsNumber(0))

DeleteInit ==
    /\ dposts \in SUBSET PostIds
    /\ comments \in [CommentIds -> {NoPost} \cup PostIds]
    /\ dlast = [op |-> "none", id |-> NoPost, referring |-> 0, allowed |-> FALSE]

\* a comment on a stored post is created
CreateComment(c, p) ==
    /\ comments[c] = NoPost /\ p \in dposts
    /\ comments' = [comments EXCEPT ![c] = p]
    /\ dlast' = [op |-> "comment", id |-> p, referring |-> 0, allowed |-> TRUE]
    /\ UNCHANGED <<dposts, notDelete>>

\* a comment is removed
RemoveComment(c) ==
    /\ comments[c] # NoPost
    /\ comments' = [comments EXCEPT ![c] = NoPost]
    /\ dlast' = [op |-> "uncomment", id |-> NoPost, referring |-> 0, allowed |-> TRUE]
    /\ UNCHANGED <<dposts, notDelete>>

\* a post is created
CreateDeletable(p) ==
    /\ p \notin dposts
    /\ dposts' = dposts \cup {p}
    /\ dlast' = [op |-> "create", id |-> p, referring |-> 0, allowed |-> TRUE]
    /\ UNCHANGED <<comments, notDelete>>

\* a request to delete post id: the operation runs the delete access function
\* and removes the post only when the function returned true
DeletePostRequest(id) ==
    /\ id \in dposts
    /\ dlast' = [op |-> "delete", id |-> id,
                 referring |-> Cardinality({ c \in CommentIds : comments[c] = id }),
                 allowed |-> deleteAccess(id)]
    /\ dposts' = IF deleteAccess(id) THEN dposts \ {id} ELSE dposts
    /\ UNCHANGED <<comments, notDelete>>

DeleteNext ==
    \/ \E c \in CommentIds, p \in PostIds : CreateComment(c, p)
    \/ \E c \in CommentIds : RemoveComment(c)
    \/ \E p \in PostIds : CreateDeletable(p)
    \/ \E id \in PostIds : DeletePostRequest(id)

InitDelete ==
    /\ DeleteInit /\ AppIdle /\ RulesIdle /\ RevalIdle /\ PubIdle /\ PluginIdle
    /\ OnInitIdle

SpecDelete == InitDelete /\ [][DeleteNext]_vars

\* C21: with the delete access function of Posts a post can be deleted exactly
\* when no comment refers to it: a delete request is allowed when the number of
\* comments whose post equals the id is zero, and denied when there is at least
\* one such comment.
C21_DeleteWhenNoComments ==
    dlast.op = "delete" => (dlast.allowed <=> dlast.referring = 0)

(***************************************************************************)
(* The revalidatePage afterChange hook of the pages (hooks.md) and the     *)
(* cached renders of the paths.                                            *)
(***************************************************************************)
notReval == <<appVars, ruleVars, deleteVars, pubVars, pluginVars, onInitVars>>

Slugs == {"home", "about", "company"}

\* a page document as the hook sees it; previousDoc is NoPrevious on create
PageDocs == [slug : Slugs, status : {"draft", "published"}, title : {"t1", "t2"}]
NoPrevious == [slug |-> "", status |-> "undefined", title |-> ""]

\* doc.slug === 'home' ? '/' : `/${doc.slug}`
PathOf(slug) == IF slug = "home" THEN << "/" >> ELSE << "/", slug >>

\* a hook that revalidates whatever the context says
revalidatePageAlways(doc, previousDoc, disableRevalidate) ==
    [revalidated |->
        (IF doc.status = "published" THEN << PathOf(doc.slug) >> ELSE << >>)
        \o (IF previousDoc.status = "published" /\ doc.status # "published"
              THEN << PathOf(previousDoc.slug) >> ELSE << >>),
     returned |-> doc]

\* revalidatePage({ doc, previousDoc, req: { payload, context } }): the calls of
\* revalidatePath it makes, in order, and the value it returns
revalidatePage(doc, previousDoc, disableRevalidate) ==
    [revalidated |->
        IF ~disableRevalidate
          THEN (IF doc.status = "published" THEN << PathOf(doc.slug) >> ELSE << >>)
               \o (IF previousDoc.status = "published" /\ doc.status # "published"
                     THEN << PathOf(previousDoc.slug) >> ELSE << >>)
          ELSE << >>,
     returned |-> doc]

\* the paths whose served content a change from previousDoc to doc alters or
\* removes: the path that served the published previous document, and the path
\* that serves the published document
Altered(doc, previousDoc) ==
    (IF previousDoc.status = "published" THEN {PathOf(previousDoc.slug)} ELSE {})
    \cup (IF doc.status = "published" THEN {PathOf(doc.slug)} ELSE {})

Range(s) == { s[i] : i \in DOMAIN s }

RevalInit ==
    /\ rdoc = NoPrevious
    /\ stale = {}
    /\ rlast = [doc |-> NoPrevious, previousDoc |-> NoPrevious,
                disableRevalidate |-> FALSE, revalidated |-> << >>,
                returned |-> NoPrevious]
    /\ skipped = FALSE

\* a create or update of the page: the document is stored, then the afterChange
\* hook runs with the stored document and the one before the change;
\* revalidatePath drops the cached render of each path it is called with
ChangePage(doc, disableRevalidate) ==
    LET run == revalidatePage(doc, rdoc, disableRevalidate) IN
    /\ rdoc' = run.returned
    /\ rlast' = [doc |-> doc, previousDoc |-> rdoc,
                 disableRevalidate |-> disableRevalidate,
                 revalidated |-> run.revalidated, returned |-> run.returned]
    /\ stale' = (stale \cup Altered(doc, rdoc)) \ Range(run.revalidated)
    /\ skipped' = (skipped \/ disableRevalidate)
    /\ UNCHANGED notReval

RevalNext == \E doc \in PageDocs, d \in BOOLEAN : ChangePage(doc, d)

InitRevalidate ==
    /\ RevalInit /\ AppIdle /\ RulesIdle /\ DeleteIdle /\ PubIdle /\ PluginIdle
    /\ OnInitIdle

SpecRevalidate == InitRevalidate /\ [][RevalNext]_vars

\* the hook has run
HookRan == rlast.doc # NoPrevious

\* C22: revalidatePage, when context.disableRevalidate is not set, revalidates
\* the path of the document ('/' for slug 'home', otherwise '/' + slug) whenever
\* the changed document is published, and the path of the previous document
\* whenever the document changed from published to not published; when
\* context.disableRevalidate is set it revalidates nothing; in every case it
\* returns the document unchanged.
C22_RevalidatePage ==
    HookRan =>
        /\ (~rlast.disableRevalidate /\ rlast.doc.status = "published")
              => (IF rlast.doc.slug = "home" THEN << "/" >> ELSE << "/", rlast.doc.slug >>)
                    \in Range(rlast.revalidated)
        /\ (~rlast.disableRevalidate /\ rlast.previousDoc.status = "published"
               /\ rlast.doc.status # "published")
              => (IF rlast.previousDoc.slug = "home" THEN << "/" >>
                  ELSE << "/", rlast.previousDoc.slug >>) \in Range(rlast.revalidated)
        /\ rlast.disableRevalidate => rlast.revalidated = << >>
        /\ rlast.returned = rlast.doc /\ rdoc = rlast.doc

\* C22 witness: the published page 'home' was unpublished under another slug
\* without the flag, and its old path '/' was revalidated.
C22_Witness ==
    /\ HookRan /\ ~rlast.disableRevalidate
    /\ rlast.previousDoc.status = "published" /\ rlast.previousDoc.slug = "home"
    /\ rlast.doc.status = "draft" /\ rlast.doc.slug = "about"
    /\ rlast.revalidated = << << "/" >> >>

\* C22 witness: a change made with context.disableRevalidate of a published page.
C22_WitnessDisabled ==
    /\ HookRan /\ rlast.disableRevalidate /\ rlast.doc.status = "published"
    /\ rlast.revalidated = << >>

\* C23: after any sequence of page changes processed by revalidatePage without
\* disableRevalidate, every path at which published content of the page was
\* served has been revalidated after the last change that altered or removed
\* what that path serves, also when the slug of a published page changes while
\* the page stays published.
C23_NoStalePath == ~skipped => stale = {}

(***************************************************************************)
(* The publishedOn date field and its beforeChange hook (hooks.md).        *)
(***************************************************************************)
notPub == <<appVars, ruleVars, deleteVars, revalVars, pluginVars, onInitVars>>

Dates == 1..MaxClock

\* the values a date field carries: a date, null (cleared), or undefined
DateValue(d) == [kind |-> "date", date |-> d]
NullValue == [kind |-> "null", date |-> 0]
UndefinedValue == [kind |-> "undefined", date |-> 0]
FieldValues == {NullValue, UndefinedValue} \cup { DateValue(d) : d \in Dates }

\* !value
Not(value) == value.kind \in {"null", "undefined"}

\* a hook that sets the date on every published save
publishedOnAlways(status, value, date) ==
    IF status = "published" THEN DateValue(date) ELSE value

\* ({ siblingData, value }) => { if (siblingData._status === 'published' && !value)
\*                                 { return new Date() } return value }
publishedOnBeforeChange(status, value, date) ==
    IF status = "published" /\ Not(value) THEN DateValue(date) ELSE value

PubInit ==
    /\ pubDoc = [status |-> "draft", publishedOn |-> UndefinedValue]
    /\ now = 1
    /\ plast = [status |-> "none", incoming |-> UndefinedValue,
                value |-> UndefinedValue, date |-> 0, result |-> UndefinedValue]

\* time passes
Tick ==
    /\ now < MaxClock
    /\ now' = now + 1
    /\ UNCHANGED <<pubDoc, plast, notPub>>

\* a save of the document with _status status; incoming is what the data carry
\* for publishedOn. A field the data leave out keeps the stored value, which is
\* then the value the hook is given; what the hook returns is stored
SavePublishedOn(status, incoming) ==
    LET value  == IF incoming.kind = "undefined" THEN pubDoc.publishedOn ELSE incoming
        result == publishedOnBeforeChange(status, value, now) IN
    /\ pubDoc' = [status |-> status, publishedOn |-> result]
    /\ plast' = [status |-> status, incoming |-> incoming, value |-> value,
                 date |-> now, result |-> result]
    /\ UNCHANGED <<now, notPub>>

PubNext ==
    \/ Tick
    \/ \E status \in {"draft", "published"}, incoming \in FieldValues :
          SavePublishedOn(status, incoming)

InitPublishedOn ==
    /\ PubInit /\ AppIdle /\ RulesIdle /\ DeleteIdle /\ RevalIdle /\ PluginIdle
    /\ OnInitIdle

SpecPublishedOn == InitPublishedOn /\ [][PubNext]_vars

\* the hook sets the current date exactly when the sibling _status is
\* 'published' and the field has no value, and returns the value otherwise
SetsExactlyWhenEmpty ==
    plast.status # "none" =>
        IF plast.status = "published" /\ plast.value.kind # "date"
          THEN plast.result = [kind |-> "date", date |-> plast.date]
          ELSE plast.result = plast.value

\* a stored date changes only to what the data of the save carry in its place
NeverReplacedByHook ==
    (pubDoc.publishedOn.kind = "date" /\ pubDoc'.publishedOn # pubDoc.publishedOn)
        => (plast'.incoming.kind # "undefined" /\ plast'.value = plast'.incoming
              /\ (plast'.incoming.kind = "date" => pubDoc'.publishedOn = plast'.incoming))

\* C24: the publishedOn beforeChange hook sets the field to the current date
\* exactly when the sibling _status is 'published' and the field has no value,
\* and otherwise returns the incoming value unchanged; consequently, across any
\* sequence of saves, a publishedOn value once set is never replaced by the hook.
C24_PublishedOnce == []SetsExactlyWhenEmpty /\ [][NeverReplacedByHook]_vars

\* C24 witness: a published document whose date was set at an earlier date has
\* been saved again as published, and the date it carried was kept.
C24_Witness ==
    /\ plast.status = "published" /\ plast.incoming.kind = "undefined"
    /\ plast.value.kind = "date" /\ plast.value.date < plast.date
    /\ pubDoc.publishedOn = plast.value

\* C24 witness: a published save of a document without a date set the date.
C24_WitnessSet ==
    /\ plast.status = "published" /\ plast.value.kind = "undefined"
    /\ pubDoc.publishedOn = [kind |-> "date", date |-> plast.date]

(***************************************************************************)
(* myPlugin (the plugin of the rules): a function from a config to a       *)
(* config.                                                                 *)
(***************************************************************************)
notPlugin == <<appVars, ruleVars, deleteVars, revalVars, pubVars, onInitVars>>

CollectionSlugs == {"posts", "pages"}

\* a collection config: its slug, the names of its fields, its other keys
CollectionConfigs ==
    [slug : CollectionSlugs,
     fields : { << "title" >>, << "title", "pluginField" >> },
     access : {"public", "admin"}]

\* interface MyPluginConfig { collections?: string[]; enabled?: boolean }
MyPluginConfigs ==
    [defined : BOOLEAN, collections : SUBSET CollectionSlugs, enabled : BOOLEAN]

SeqsUpTo(S, n) == UNION { [1..k -> S] : k \in 0..n }

\* a config: its collections (the key may be undefined) and its other keys
Configs ==
    [defined : BOOLEAN, collections : SeqsUpTo(CollectionConfigs, MaxCollections),
     serverURL : {"url1", "url2"}]

\* options.collections?.includes(collection.slug)
Includes(options, slug) == options.defined /\ slug \in options.collections

\* a plugin that pushes the field into the collections of the config it is given
myPluginInPlace(options, config) ==
    LET changed ==
          [config EXCEPT !.collections =
              [i \in DOMAIN config.collections |->
                  IF Includes(options, config.collections[i].slug)
                    THEN [config.collections[i] EXCEPT
                            !.fields = Append(@, "pluginField")]
                    ELSE config.collections[i]]]
    IN [given |-> changed, returned |-> changed]

\* myPlugin(options)(config): the config object it was given, as it is after the
\* call, and the config it returns. The spread copies the keys; map builds a new
\* array; config.collections?.map is undefined when the key is undefined
myPlugin(options, config) ==
    [given |-> config,
     returned |->
        [config EXCEPT !.collections =
            IF config.defined
              THEN [i \in DOMAIN config.collections |->
                      IF Includes(options, config.collections[i].slug)
                        THEN [config.collections[i] EXCEPT
                                !.fields = Append(@, "pluginField")]
                        ELSE config.collections[i]]
              ELSE config.collections]]

PluginInit ==
    /\ pconfig \in Configs
    /\ ~pconfig.defined => pconfig.collections = << >>
    /\ presult = [applied |-> FALSE,
                  options |-> [defined |-> FALSE, collections |-> {}, enabled |-> FALSE],
                  before |-> pconfig, returned |-> pconfig]

\* the plugin built from options is applied to the config
ApplyPlugin(options) ==
    /\ options.defined \/ options.collections = {}
    /\ pconfig' = myPlugin(options, pconfig).given
    /\ presult' = [applied |-> TRUE, options |-> options, before |-> pconfig,
                   returned |-> myPlugin(options, pconfig).returned]
    /\ UNCHANGED notPlugin

PluginNext == \E options \in MyPluginConfigs : ApplyPlugin(options)

InitPlugin ==
    /\ PluginInit /\ AppIdle /\ RulesIdle /\ DeleteIdle /\ RevalIdle /\ PubIdle
    /\ OnInitIdle

SpecPlugin == InitPlugin /\ [][PluginNext]_vars

\* the indices of the collections whose slug is listed in the options
Listed ==
    { i \in DOMAIN presult.before.collections :
        /\ presult.options.defined
        /\ presult.before.collections[i].slug \in presult.options.collections }

\* C25: myPlugin(options) preserves the existing configuration: applied to any
\* config it returns every collection whose slug is not in options.collections
\* unchanged and in the same order, appends exactly one field named pluginField
\* to each collection whose slug is listed, keeps every other config key, and
\* does not mutate the config object it was given.
C25_PreservesConfig ==
    presult.applied =>
        LET b == presult.before
            r == presult.returned IN
        /\ pconfig = b
        /\ r.serverURL = b.serverURL /\ r.defined = b.defined
        /\ Len(r.collections) = Len(b.collections)
        /\ \A i \in DOMAIN b.collections :
              IF i \in Listed
                THEN /\ r.collections[i].fields
                           = b.collections[i].fields \o << "pluginField" >>
                     /\ r.collections[i].slug = b.collections[i].slug
                     /\ r.collections[i].access = b.collections[i].access
                ELSE r.collections[i] = b.collections[i]

\* C25 witness: the plugin was applied to a config of two collections, the first
\* not listed in the options, the second listed.
C25_Witness ==
    /\ presult.applied /\ Len(presult.before.collections) = 2
    /\ Listed = {2}
    /\ presult.returned.collections[2].fields = << "title", "pluginField" >>
    /\ presult.returned.collections[1] = presult.before.collections[1]

(***************************************************************************)
(* The onInit function a plugin installs (components.md): it calls the     *)
(* onInit configured before it, logs, counts the seeded documents and      *)
(* creates the document when the count is zero. Executions may overlap.    *)
(***************************************************************************)
notOnInit == <<appVars, ruleVars, deleteVars, revalVars, pubVars, pluginVars>>

Execs == 1..MaxInits

\* an onInit that calls the configured onInit without awaiting it
CallsWithoutAwait == FALSE

\* if (incomingOnInit) await incomingOnInit(payload)
AwaitsIncoming == TRUE

OnInitInit ==
    /\ hasIncoming \in BOOLEAN
    /\ ipc = [e \in Execs |-> "idle"]
    /\ ilog = [e \in Execs |-> << >>]
    /\ itotal = [e \in Execs |-> 0]
    /\ seeded \in 0..1

Did(e, event) == ilog' = [ilog EXCEPT ![e] = Append(@, event)]

\* config.onInit(payload) is executed: the onInit configured before the plugin,
\* if there is one, is called first
StartOnInit(e) ==
    /\ ipc[e] = "idle"
    /\ IF hasIncoming
         THEN /\ Did(e, "incoming called")
              /\ ipc' = [ipc EXCEPT ![e] = IF AwaitsIncoming THEN "incoming" ELSE "log"]
         ELSE /\ ipc' = [ipc EXCEPT ![e] = "log"]
              /\ UNCHANGED ilog
    /\ UNCHANGED <<hasIncoming, itotal, seeded, notOnInit>>

\* the awaited incomingOnInit(payload) resolves or rejects; a rejection leaves
\* the async function at the await
IncomingSettles(e, ok) ==
    /\ ipc[e] = "incoming"
    /\ Did(e, IF ok THEN "incoming resolved" ELSE "incoming rejected")
    /\ ipc' = [ipc EXCEPT ![e] = IF ok THEN "log" ELSE "rejected"]
    /\ UNCHANGED <<hasIncoming, itotal, seeded, notOnInit>>

\* payload.logger.info(...)
LogInit(e) ==
    /\ ipc[e] = "log"
    /\ Did(e, "log")
    /\ ipc' = [ipc EXCEPT ![e] = "count"]
    /\ UNCHANGED <<hasIncoming, itotal, seeded, notOnInit>>

\* const { totalDocs } = await payload.count({ collection: 'plugin-collection',
\*                                where: { id: { equals: 'seeded-by-plugin' } } })
CountSeeded(e, ok) ==
    /\ ipc[e] = "count"
    /\ Did(e, IF ok THEN "count" ELSE "count rejected")
    /\ itotal' = [itotal EXCEPT ![e] = IF ok THEN seeded ELSE @]
    /\ ipc' = [ipc EXCEPT ![e] = IF ok THEN "decide" ELSE "rejected"]
    /\ UNCHANGED <<hasIncoming, seeded, notOnInit>>

\* if (totalDocs === 0) is false: nothing is created
SkipCreate(e) ==
    /\ ipc[e] = "decide" /\ itotal[e] # 0
    /\ ipc' = [ipc EXCEPT ![e] = "done"]
    /\ UNCHANGED <<hasIncoming, ilog, itotal, seeded, notOnInit>>

\* await payload.create({ collection: 'plugin-collection',
\*                        data: { id: 'seeded-by-plugin' } }):
\* the id is the key of the document, a create with an id that is stored is
\* rejected by the database
CreateSeeded(e, ok) ==
    /\ ipc[e] = "decide" /\ itotal[e] = 0
    /\ IF seeded > 0
         THEN /\ Did(e, "create rejected: duplicate id")
              /\ ipc' = [ipc EXCEPT ![e] = "rejected"]
              /\ UNCHANGED seeded
         ELSE /\ Did(e, IF ok THEN "create" ELSE "create rejected")
              /\ ipc' = [ipc EXCEPT ![e] = IF ok THEN "done" ELSE "rejected"]
              /\ seeded' = IF ok THEN seeded + 1 ELSE seeded
    /\ UNCHANGED <<hasIncoming, itotal, notOnInit>>

OnInitNext ==
    \/ \E e \in Execs : StartOnInit(e)
    \/ \E e \in Execs, ok \in BOOLEAN : IncomingSettles(e, ok)
    \/ \E e \in Execs : LogInit(e)
    \/ \E e \in Execs, ok \in BOOLEAN : CountSeeded(e, ok)
    \/ \E e \in Execs : SkipCreate(e)
    \/ \E e \in Execs, ok \in BOOLEAN : CreateSeeded(e, ok)

InitOnInit ==
    /\ OnInitInit /\ AppIdle /\ RulesIdle /\ DeleteIdle /\ RevalIdle /\ PubIdle
    /\ PluginIdle

SpecOnInit == InitOnInit /\ [][OnInitNext]_vars

\* what the plugin's own initialisation consists of
OwnSteps ==
    {"log", "count", "count rejected", "create", "create rejected",
     "create rejected: duplicate id"}

\* C26: in the plugin onInit pattern, an onInit that was already configured is
\* always called and awaited to completion before any of the plugin's own
\* initialisation (logging, counting, seeding) starts, and if it rejects the
\* plugin's initialisation does not run.
C26_IncomingFirst ==
    hasIncoming =>
        \A e \in Execs :
            /\ ipc[e] # "idle" => (ilog[e] # << >> /\ ilog[e][1] = "incoming called")
            /\ \A i \in DOMAIN ilog[e] :
                  ilog[e][i] \in OwnSteps
                      => (i > 2 /\ ilog[e][2] = "incoming resolved")
            /\ (Len(ilog[e]) >= 2 /\ ilog[e][2] = "incoming rejected")
                  => (Len(ilog[e]) = 2 /\ ipc[e] = "rejected")

\* C26 witness: one execution went on to count after the configured onInit
\* resolved, another ended when the configured onInit rejected.
C26_Witness ==
    /\ hasIncoming
    /\ \E e1 \in Execs, e2 \in Execs :
          /\ ilog[e1] = << "incoming called", "incoming resolved", "log", "count" >>
          /\ ilog[e2] = << "incoming called", "incoming rejected" >>
          /\ ipc[e2] = "rejected"

\* an execution has ended
Settled(e) == ipc[e] \in {"done", "rejected"}

====
